---- MODULE Spec2Model ----
(***************************************************************************)
(* A model of ignition-lint: the path flattener, the view-model builder,   *)
(* the rule engine and its rules.  Strings are TLA+ strings handled        *)
(* character by character (Len, SubSeq, \o), so that prefix, suffix and    *)
(* substring tests are computed as the Python code computes them.          *)
(***************************************************************************)
EXTENDS Integers, Sequences, FiniteSets, TLC

(***************************************************************************)
(* Python string primitives                                                *)
(***************************************************************************)

\* s.startswith(p)
StartsWith(s, p) == Len(p) <= Len(s) /\ SubSeq(s, 1, Len(p)) = p

\* s.endswith(p)
EndsWith(s, p) == Len(p) <= Len(s) /\ SubSeq(s, Len(s) - Len(p) + 1, Len(s)) = p

\* the indexes at which p occurs in s
Occurrences(s, p) == {i \in 1..(Len(s) - Len(p) + 1) : SubSeq(s, i, i + Len(p) - 1) = p}

\* lowest index i >= from at which p occurs in s, 0 when there is none
FindFrom(s, p, from) ==
    LET hits == {i \in Occurrences(s, p) : i >= from}
    IN IF hits = {} THEN 0 ELSE CHOOSE i \in hits : \A j \in hits : i <= j

\* p in s
Contains(s, p) == FindFrom(s, p, 1) # 0

\* s[i:] with a 0-based Python index i
Drop(s, i) == SubSeq(s, i + 1, Len(s))

\* s.split(sep) for a non-empty separator, scanning left to right
RECURSIVE Split(_, _)
Split(s, sep) ==
    LET i == FindFrom(s, sep, 1)
    IN IF i = 0 THEN <<s>>
       ELSE <<SubSeq(s, 1, i - 1)>> \o Split(SubSeq(s, i + Len(sep), Len(s)), sep)

\* highest index at which p occurs in s, 0 when there is none
RFind(s, p) ==
    LET hits == Occurrences(s, p)
    IN IF hits = {} THEN 0 ELSE CHOOSE i \in hits : \A j \in hits : j <= i

\* s.rsplit(sep, 1)[0]
RSplitHead(s, sep) ==
    LET i == RFind(s, sep)
    IN IF i = 0 THEN s ELSE SubSeq(s, 1, i - 1)

\* seq[-1]
Last(seq) == seq[Len(seq)]

Digits == <<"0", "1", "2", "3", "4", "5", "6", "7", "8", "9">>
IsDigit(c) == \E d \in 1..10 : Digits[d] = c
DigitVal(c) == (CHOOSE d \in 1..10 : Digits[d] = c) - 1

\* str(n) for a natural number n
RECURSIVE IntStr(_)
IntStr(n) == IF n < 10 THEN Digits[n + 1] ELSE IntStr(n \div 10) \o Digits[(n % 10) + 1]

\* int(s) for a string of digits
RECURSIVE StrInt(_)
StrInt(s) ==
    IF Len(s) = 0 THEN 0
    ELSE 10 * StrInt(SubSeq(s, 1, Len(s) - 1)) + DigitVal(SubSeq(s, Len(s), Len(s)))

\* the end of the run of digits of s that starts at index i (i - 1 when empty)
RECURSIVE DigitsEnd(_, _)
DigitsEnd(s, i) ==
    IF i <= Len(s) /\ IsDigit(SubSeq(s, i, i)) THEN DigitsEnd(s, i + 1) ELSE i - 1

\* re.search(prefix + r'(\d+)\]', s): the number captured by the leftmost
\* match, -1 when nothing matches
RECURSIVE SearchIndexed(_, _, _)
SearchIndexed(s, prefix, from) ==
    LET i == FindFrom(s, prefix, from)
        d == i + Len(prefix)
        e == DigitsEnd(s, d)
    IN IF i = 0 THEN -1
       ELSE IF e >= d /\ SubSeq(s, e + 1, e + 1) = "]" THEN StrInt(SubSeq(s, d, e))
       ELSE SearchIndexed(s, prefix, i + 1)

(***************************************************************************)
(* JSON documents.  Every node is a record of one shape: t is the kind,    *)
(* items the members of an object (key, value) or of an array (value only),*)
(* s the text of a string and n the value of a number or boolean.          *)
(***************************************************************************)
KV(k, v) == [k |-> k, v |-> v]
JDict(items) == [t |-> "dict", items |-> items, s |-> "", n |-> 0]
JList(elems) == [t |-> "list", items |-> [i \in 1..Len(elems) |-> KV("", elems[i])], s |-> "", n |-> 0]
JStr(s) == [t |-> "str", items |-> <<>>, s |-> s, n |-> 0]
JNum(n) == [t |-> "num", items |-> <<>>, s |-> "", n |-> n]
JBool(b) == [t |-> "bool", items |-> <<>>, s |-> "", n |-> IF b THEN 1 ELSE 0]

\* a leaf as it is stored in the flat map
Leaf(j) == [t |-> j.t, s |-> j.s, n |-> j.n]
StrVal(s) == [t |-> "str", s |-> s, n |-> 0]
BoolVal(b) == [t |-> "bool", s |-> "", n |-> IF b THEN 1 ELSE 0]
None == [t |-> "none", s |-> "", n |-> 0]

\* Python truthiness of a leaf
Truthy(v) ==
    CASE v.t = "str" -> v.s # ""
      [] v.t \in {"num", "bool"} -> v.n # 0
      [] OTHER -> FALSE

(***************************************************************************)
(* The flat map: an ordered mapping path -> leaf, kept as a sequence of    *)
(* entries in insertion order (OrderedDict).                               *)
(***************************************************************************)
Keys(fm) == {fm[i].path : i \in 1..Len(fm)}
HasKey(fm, path) == \E i \in 1..Len(fm) : fm[i].path = path

\* fm.get(path, fallback)
Get(fm, path, fallback) ==
    IF HasKey(fm, path)
    THEN fm[CHOOSE i \in 1..Len(fm) : fm[i].path = path].val
    ELSE fallback

\* results[path] = val
Put(fm, path, val) ==
    IF HasKey(fm, path)
    THEN [i \in 1..Len(fm) |-> IF fm[i].path = path THEN [path |-> path, val |-> val] ELSE fm[i]]
    ELSE Append(fm, [path |-> path, val |-> val])

(***************************************************************************)
(* common/flatten_json.py                                                  *)
(***************************************************************************)
DictGet(d, key) ==
    IF d.t = "dict" /\ \E i \in 1..Len(d.items) : d.items[i].k = key
    THEN LET hits == {i \in 1..Len(d.items) : d.items[i].k = key}
         IN d.items[CHOOSE i \in hits : \A j \in hits : j <= i].v
    ELSE None

\* a path that takes no name from the object
path_without_name(data, path) == path

\* _get_component_path(data, path)
get_component_path(data, path) ==
    LET meta == DictGet(data, "meta")
        component_name == IF meta.t = "dict" THEN DictGet(meta, "name") ELSE None
    IN IF Truthy(component_name)
       THEN (IF path # "" THEN path \o "." \o component_name.s ELSE component_name.s)
       ELSE path

RECURSIVE flatten_json(_, _, _)
RECURSIVE process_dict_items(_, _, _, _)
RECURSIVE process_list_items(_, _, _, _)

\* _process_single_item(item, item_path, results)
process_single_item(item, item_path, results) ==
    IF item.t \in {"dict", "list"}
    THEN flatten_json(item, item_path, results)
    ELSE Put(results, item_path, Leaf(item))

\* _process_dict_item(key, value, path, results)
process_dict_item(key, value, path, results) ==
    LET current_path == IF path # "" THEN path \o "." \o key ELSE key
    IN CASE value.t = "dict" -> flatten_json(value, current_path, results)
         [] value.t = "list" -> process_list_items(value, current_path, results, 1)
         [] OTHER -> Put(results, current_path, Leaf(value))

\* the loop over data.items() of flatten_json, from item i on
\* (the test on Len(updated) only makes the item's writes happen before the
\* next item is taken up)
process_dict_items(data, path, results, i) ==
    IF i > Len(data.items) THEN results
    ELSE LET updated == process_dict_item(data.items[i].k, data.items[i].v, path, results)
         IN IF Len(updated) >= 0 THEN process_dict_items(data, path, updated, i + 1)
            ELSE updated

\* list items processed so that a list without elements leaves its own path
\* in the results
RECURSIVE materialized_list_items(_, _, _, _)
materialized_list_items(items, base_path, results, i) ==
    IF items.items = <<>> THEN Put(results, base_path, None)
    ELSE IF i > Len(items.items) THEN results
    ELSE LET updated == process_single_item(items.items[i].v,
                                            base_path \o "[" \o IntStr(i - 1) \o "]", results)
         IN IF Len(updated) >= 0 THEN materialized_list_items(items, base_path, updated, i + 1)
            ELSE updated

\* _process_list_items(items, base_path, results), from element i on
process_list_items(items, base_path, results, i) ==
    IF i > Len(items.items) THEN results
    ELSE LET updated == process_single_item(items.items[i].v,
                                            base_path \o "[" \o IntStr(i - 1) \o "]", results)
         IN IF Len(updated) >= 0 THEN process_list_items(items, base_path, updated, i + 1)
            ELSE updated

\* flatten_json(data, path, results)
flatten_json(data, path, results) ==
    CASE data.t = "dict" ->
             process_dict_items(data, get_component_path(data, path), results, 1)
      [] data.t = "list" -> process_list_items(data, path, results, 1)
      [] OTHER -> results

Flatten(doc) == flatten_json(doc, "", <<>>)

\* the characters of the paths in the order of their code points
CodePoints == " -.0123456789ABCDEFGHIJKLMNOPQRSTUVWXYZ[]_abcdefghijklmnopqrstuvwxyz"
Ord(c) == CHOOSE i \in 1..Len(CodePoints) : SubSeq(CodePoints, i, i) = c

\* a < b on Python strings
StrLess(a, b) ==
    LET shorter == IF Len(a) < Len(b) THEN Len(a) ELSE Len(b)
        differ == {i \in 1..shorter : SubSeq(a, i, i) # SubSeq(b, i, i)}
    IN IF differ = {} THEN Len(a) < Len(b)
       ELSE LET i == CHOOSE k \in differ : \A m \in differ : k <= m
            IN Ord(SubSeq(a, i, i)) < Ord(SubSeq(b, i, i))

\* sorted(flat_json.items()): the keys differ, so the pairs are ordered by key
RECURSIVE sorted_items(_)
sorted_items(fm) ==
    IF fm = <<>> THEN <<>>
    ELSE LET least == CHOOSE i \in 1..Len(fm) : \A j \in 1..Len(fm) :
                          j = i \/ StrLess(fm[i].path, fm[j].path)
         IN <<fm[least]>> \o sorted_items(SelectSeq(fm, LAMBDA e : e.path # fm[least].path))

\* flatten_file(file_path) on the file whose content parses to json_data
flatten_file(json_data) == sorted_items(flatten_json(json_data, "", <<>>))

(***************************************************************************)
(* model/node_types.py: the node variants.  A node is a record of one      *)
(* shape; a variant leaves the fields it does not have at their defaults.  *)
(***************************************************************************)
ViewNode(path, node_type) ==
    [path |-> path, node_type |-> node_type, name |-> "", type |-> "",
     expression |-> "", target_path |-> "", tag_path |-> "", mode |-> "",
     script |-> "", message_type |-> "", event_type |-> "", event_domain |-> "",
     binding_path |-> "", scope |-> <<>>, params |-> <<>>, properties |-> <<>>,
     value |-> None]

Component(path, name, type_name) ==
    [ViewNode(path, "component") EXCEPT !.name = name, !.type = type_name]
ExpressionBinding(path, expression) ==
    [ViewNode(path, "expression_binding") EXCEPT !.expression = expression]
PropertyBinding(path, target_path) ==
    [ViewNode(path, "property_binding") EXCEPT !.target_path = target_path]
TagBinding(path, tag_path) ==
    [ViewNode(path, "tag_binding") EXCEPT !.tag_path = tag_path, !.mode = "direct"]
MessageHandlerScript(path, script, message_type, scope) ==
    [ViewNode(path, "message_handler") EXCEPT
        !.script = script, !.message_type = message_type, !.scope = scope]
CustomMethodScript(path, name, script, params) ==
    [ViewNode(path, "custom_method") EXCEPT !.name = name, !.script = script, !.params = params]
TransformScript(path, script, binding_path) ==
    [ViewNode(path, "transform") EXCEPT !.script = script, !.binding_path = binding_path]
EventHandlerScript(path, event_domain, event_type, script, scope) ==
    [ViewNode(path, "event_handler") EXCEPT
        !.event_domain = event_domain, !.event_type = event_type,
        !.script = script, !.scope = <<scope>>]
Property(path, name, value) ==
    [ViewNode(path, "property") EXCEPT !.name = name, !.value = value]

ALL_SCRIPTS == {"message_handler", "custom_method", "transform", "event_handler"}

\* ViewNode.applies_to_rule(rule_node_types)
applies_to_rule(node, rule_node_types) ==
    IF rule_node_types = {} THEN TRUE ELSE node.node_type \in rule_node_types

\* the visit methods NodeVisitor defines, each with the body pass
NodeVisitorMethods ==
    {"visit_generic", "visit_component", "visit_expression_binding", "visit_property_binding",
     "visit_tag_binding", "visit_message_handler", "visit_custom_method", "visit_transform",
     "visit_event_handler", "visit_property"}

\* ViewNode.accept(visitor) on a rule that defines the methods in defined
\* itself and inherits the others from NodeVisitor: the method that is
\* called, and whether it is one the rule defines
accept(node, defined) ==
    LET method_name == "visit_" \o node.node_type
        visit_method == IF method_name \in defined \cup NodeVisitorMethods
                        THEN method_name ELSE "visit_generic"
    IN [called |-> visit_method, by_rule |-> visit_method \in defined]

(***************************************************************************)
(* model/builder.py                                                        *)
(***************************************************************************)

\* _search_for_path_value(path, suffix, fallback)
search_for_path_value(fm, path, suffix, fallback) ==
    Get(fm, IF suffix # "" THEN path \o "." \o suffix ELSE path, fallback)

get_component_type(fm, component_path) ==
    search_for_path_value(fm, component_path, "type", StrVal("unknown"))
get_expression(fm, binding_path) ==
    search_for_path_value(fm, binding_path, "binding.config.expression", StrVal("unknown"))
get_property_path(fm, binding_path) ==
    search_for_path_value(fm, binding_path, "binding.config.path", StrVal("unknown"))
get_tag_path(fm, binding_path) ==
    search_for_path_value(fm, binding_path, "binding.config.tagPath", StrVal("unknown"))

\* a persistence test that looks for configuration only, never at the flag
persistent_whatever_the_flag(fm, property_path) == TRUE

\* _is_property_persistent(property_path), as its callers test it
is_property_persistent(fm, property_path) ==
    LET persistent_value == Get(fm, "propConfig." \o property_path \o ".persistent", None)
        config_prefix == "propConfig." \o property_path \o "."
        has_any_config == \E i \in 1..Len(fm) : StartsWith(fm[i].path, config_prefix)
    IN IF persistent_value.t # "none" THEN Truthy(persistent_value)
       ELSE IF has_any_config THEN TRUE
       ELSE TRUE

\* _collect_components
RECURSIVE collect_components(_, _)
collect_components(fm, i) ==
    IF i > Len(fm) THEN <<>>
    ELSE IF ~EndsWith(fm[i].path, ".meta.name") THEN collect_components(fm, i + 1)
    ELSE LET component_path == RSplitHead(fm[i].path, ".meta.name")
         IN <<Component(component_path, fm[i].val.s, get_component_type(fm, component_path).s)>>
            \o collect_components(fm, i + 1)

\* _get_script_transforms(binding_path): the (transform_path, script) pairs
RECURSIVE get_script_transforms(_, _, _)
get_script_transforms(fm, binding_path, i) ==
    IF i > Len(fm) THEN <<>>
    ELSE LET path == fm[i].path
             transform_base == RSplitHead(path, ".type")
         IN (IF /\ StartsWith(path, binding_path \o ".transforms")
                /\ EndsWith(path, ".type")
                /\ fm[i].val = StrVal("script")
                /\ HasKey(fm, transform_base \o ".script")
             THEN <<[path |-> transform_base, script |-> Get(fm, transform_base \o ".script", None).s]>>
             ELSE <<>>)
            \o get_script_transforms(fm, binding_path, i + 1)

\* the binding node _collect_bindings creates for one binding path, if any
BindingNodes(fm, binding_path, binding_type) ==
    CASE binding_type \in {StrVal("expression"), StrVal("expr")} ->
             <<ExpressionBinding(binding_path, get_expression(fm, binding_path).s)>>
      [] binding_type = StrVal("property") ->
             <<PropertyBinding(binding_path, get_property_path(fm, binding_path).s)>>
      [] binding_type = StrVal("tag") ->
             <<TagBinding(binding_path, get_tag_path(fm, binding_path).s)>>
      [] OTHER -> <<>>

TransformNodes(fm, binding_path) ==
    LET transforms == get_script_transforms(fm, binding_path \o ".binding", 1)
    IN [k \in 1..Len(transforms) |->
           TransformScript(transforms[k].path, transforms[k].script, binding_path)]

\* _collect_bindings: the nodes appended to 'bindings' and to 'script_transforms'
RECURSIVE collect_bindings(_, _, _)
collect_bindings(fm, i, visited_paths) ==
    IF i > Len(fm) THEN [bindings |-> <<>>, script_transforms |-> <<>>]
    ELSE LET path == fm[i].path
             binding_path == RSplitHead(path, ".binding.type")
         IN IF ~Contains(path, ".binding.type") \/ binding_path \in visited_paths
            THEN collect_bindings(fm, i + 1, visited_paths)
            ELSE LET rest == collect_bindings(fm, i + 1, visited_paths \cup {binding_path})
                 IN [bindings |-> BindingNodes(fm, binding_path, fm[i].val) \o rest.bindings,
                     script_transforms |->
                         TransformNodes(fm, binding_path) \o rest.script_transforms]

\* _collect_message_handlers
RECURSIVE collect_message_handlers(_, _)
collect_message_handlers(fm, i) ==
    IF i > Len(fm) THEN <<>>
    ELSE LET path == fm[i].path
             base_path == RSplitHead(path, ".messageType")
         IN (IF Contains(path, ".scripts.messageHandlers") /\ EndsWith(path, ".messageType")
             THEN <<MessageHandlerScript(base_path,
                        search_for_path_value(fm, base_path, "script", StrVal("")).s,
                        fm[i].val.s,
                        <<search_for_path_value(fm, base_path, "pageScope", BoolVal(FALSE)),
                          search_for_path_value(fm, base_path, "sessionScope", BoolVal(FALSE)),
                          search_for_path_value(fm, base_path, "viewScope", BoolVal(FALSE))>>)>>
             ELSE <<>>)
            \o collect_message_handlers(fm, i + 1)

\* custom_method_data[method_id], created on first use
MethodData(data, method_id, component_path, method_index) ==
    IF \E k \in 1..Len(data) : data[k].id = method_id THEN data
    ELSE Append(data, [id |-> method_id,
                       path |-> component_path \o ".scripts.customMethods["
                                \o IntStr(method_index) \o "]",
                       name |-> "unknown_method", params |-> <<>>, script |-> ""])

\* params[param_index] = value, the list first padded with ''
SetParam(params, param_index, value) ==
    [k \in 1..(IF Len(params) > param_index THEN Len(params) ELSE param_index + 1) |->
        IF k = param_index + 1 THEN value
        ELSE IF k <= Len(params) THEN params[k] ELSE ""]

\* the first loop of _collect_custom_methods
RECURSIVE custom_method_data(_, _, _)
custom_method_data(fm, i, data) ==
    IF i > Len(fm) THEN data
    ELSE LET path == fm[i].path
             method_index == SearchIndexed(path, ".scripts.customMethods[", 1)
             component_path == Split(path, ".scripts.customMethods")[1]
             method_id == component_path \o ".customMethod_" \o IntStr(method_index)
             data1 == MethodData(data, method_id, component_path, method_index)
             param_index == SearchIndexed(path, "params[", 1)
             upd(d) ==
                 CASE EndsWith(path, ".name") -> [d EXCEPT !.name = fm[i].val.s]
                   [] EndsWith(path, ".script") -> [d EXCEPT !.script = fm[i].val.s]
                   [] Contains(path, "params") /\ param_index >= 0 ->
                          [d EXCEPT !.params = SetParam(d.params, param_index, fm[i].val.s)]
                   [] OTHER -> d
         IN IF ~Contains(path, ".scripts.customMethods") \/ method_index < 0
            THEN custom_method_data(fm, i + 1, data)
            ELSE custom_method_data(fm, i + 1,
                     [k \in 1..Len(data1) |->
                         IF data1[k].id = method_id THEN upd(data1[k]) ELSE data1[k]])

\* _collect_custom_methods
collect_custom_methods(fm) ==
    LET data == custom_method_data(fm, 1, <<>>)
    IN [k \in 1..Len(data) |->
           CustomMethodScript(data[k].path, data[k].name, data[k].script, data[k].params)]

\* re.search(r'\.events\.([^.]+)$', s): the captured event type, "" when
\* there is no match
EventTypeMatch(s) ==
    LET seg == Last(Split(s, "."))
    IN IF seg # "" /\ EndsWith(s, ".events." \o seg) THEN seg ELSE ""

\* _collect_event_handlers
RECURSIVE collect_event_handlers(_, _)
collect_event_handlers(fm, i) ==
    IF i > Len(fm) THEN <<>>
    ELSE LET path == fm[i].path
             event_path_parts == IF Contains(path, ".config.script")
                                 THEN Split(path, ".config.script")[1]
                                 ELSE Split(path, ".script")[1]
             event_type == EventTypeMatch(event_path_parts)
         IN (IF /\ Contains(path, ".events.")
                /\ (Contains(path, ".config.script") \/ EndsWith(path, ".script"))
                /\ event_type # ""
             THEN <<EventHandlerScript(event_path_parts, "component", event_type, fm[i].val.s,
                        Get(fm, event_path_parts \o ".scope", StrVal("L")))>>
             ELSE <<>>)
            \o collect_event_handlers(fm, i + 1)

\* the component lookup of _collect_properties: the path of the longest
\* component path that is a string prefix of path, "" when there is none
OwnerPath(components, path) ==
    LET owners == {k \in 1..Len(components) : StartsWith(path, components[k].path)}
        \* the first of the longest ones wins (strict > in the loop)
        best == CHOOSE k \in owners :
                    /\ \A j \in owners : Len(components[j].path) <= Len(components[k].path)
                    /\ \A j \in owners : Len(components[j].path) = Len(components[k].path) => k <= j
    IN IF owners = {} THEN "" ELSE components[best].path

\* the "skip" test at the head of the loop of _collect_properties
SkippedPath(path) ==
    \/ \E prop \in {"meta", "binding", "scripts", "events"} : Contains(path, "." \o prop \o ".")
    \/ EndsWith(path, ".type")
    \/ StartsWith(path, "propConfig.")

\* _collect_properties
RECURSIVE collect_properties(_, _, _)
collect_properties(fm, components, i) ==
    IF i > Len(fm) THEN <<>>
    ELSE LET path == fm[i].path
             property_name == Last(Split(path, "."))
             prop == Property(path, property_name, fm[i].val)
             component_path == OwnerPath(components, path)
         IN (CASE SkippedPath(path) -> <<>>
               [] ~SkippedPath(path) /\ (StartsWith(path, "custom.") \/ StartsWith(path, "params.")) ->
                      IF is_property_persistent(fm, path) THEN <<prop>> ELSE <<>>
               [] OTHER ->
                      IF component_path = "" THEN <<>>
                      ELSE IF Contains(path, ".custom.") /\ ~is_property_persistent(fm, path)
                      THEN <<>>
                      ELSE <<prop>>)
            \o collect_properties(fm, components, i + 1)

\* the test "component_path in self.model['components']" that guards the
\* attachment in _collect_properties: components is the LIST of Component
\* nodes, and a Component (which defines no __eq__) equals no path string
InComponentList(components, component_path) ==
    \E k \in 1..Len(components) : <<"Component", components[k].path>> = <<"str", component_path>>

\* the properties map the last lines of _collect_properties leave on a
\* component: the name and value of every Property it owns, where the guard
\* lets the attachment happen
component_properties(properties, components, component) ==
    LET attached == SelectSeq(properties,
                        LAMBDA p : /\ InComponentList(components, OwnerPath(components, p.path))
                                   /\ ~StartsWith(p.path, "custom.")
                                   /\ ~StartsWith(p.path, "params.")
                                   /\ OwnerPath(components, p.path) = component.path)
    IN [k \in 1..Len(attached) |-> [path |-> attached[k].name, val |-> attached[k].value]]

\* the order in which build_model creates the keys of the model
ModelKeys ==
    <<"components", "bindings", "scripts", "event_handlers", "message_handlers",
      "custom_methods", "expression_bindings", "property_bindings", "tag_bindings",
      "script_transforms", "properties">>

EmptyModel == [k \in {ModelKeys[i] : i \in 1..Len(ModelKeys)} |-> <<>>]

\* the collectors of build_model run in turn on self.model, each appending the
\* nodes it creates to the lists the model holds
collect(model, fm) ==
    LET collected == collect_components(fm, 1)
        b == collect_bindings(fm, 1, {})
        message_handlers == collect_message_handlers(fm, 1)
        custom_methods == collect_custom_methods(fm)
        event_handlers == collect_event_handlers(fm, 1)
        properties == collect_properties(fm, collected, 1)
        components == [k \in 1..Len(collected) |->
                          [collected[k] EXCEPT
                              !.properties = component_properties(properties, collected,
                                                                  collected[k])]]
    IN [components |-> model.components \o components,
        bindings |-> model.bindings \o b.bindings,
        scripts |-> model.scripts \o b.script_transforms \o message_handlers
                        \o custom_methods \o event_handlers,
        event_handlers |-> model.event_handlers \o event_handlers,
        message_handlers |-> model.message_handlers \o message_handlers,
        custom_methods |-> model.custom_methods \o custom_methods,
        expression_bindings |-> model.expression_bindings
                        \o SelectSeq(b.bindings, LAMBDA n : n.node_type = "expression_binding"),
        property_bindings |-> model.property_bindings
                        \o SelectSeq(b.bindings, LAMBDA n : n.node_type = "property_binding"),
        tag_bindings |-> model.tag_bindings
                        \o SelectSeq(b.bindings, LAMBDA n : n.node_type = "tag_binding"),
        script_transforms |-> model.script_transforms \o b.script_transforms,
        properties |-> model.properties \o properties]

\* build_model(flattened_json): self.model is replaced by a dictionary of
\* empty lists before the collectors run
build_model(fm) == collect(EmptyModel, fm)

\* the flat node list LintEngine.process hands to every rule
RECURSIVE AllNodes(_, _)
AllNodes(view_model, k) ==
    IF k > Len(ModelKeys) THEN <<>>
    ELSE view_model[ModelKeys[k]] \o AllNodes(view_model, k + 1)

(***************************************************************************)
(* Character classes and the regular-expression pieces the rules use       *)
(***************************************************************************)
Chars(s) == {SubSeq(s, i, i) : i \in 1..Len(s)}
LowerChars == Chars("abcdefghijklmnopqrstuvwxyz")
UpperChars == Chars("ABCDEFGHIJKLMNOPQRSTUVWXYZ")
DigitChars == Chars("0123456789")
IdentStart == LowerChars \cup UpperChars \cup {"_"}
IdentChars == IdentStart \cup DigitChars

\* the end of the longest run of characters of class cls that starts at i
RECURSIVE RunEnd(_, _, _)
RunEnd(s, i, cls) ==
    IF i <= Len(s) /\ SubSeq(s, i, i) \in cls THEN RunEnd(s, i + 1, cls) ELSE i - 1

\* re.findall(prefix + r'([a-zA-Z_][a-zA-Z0-9_]*)', s): the captured names
RECURSIVE FindAllIdent(_, _, _)
FindAllIdent(s, prefix, from) ==
    LET i == FindFrom(s, prefix, from)
        d == i + Len(prefix)
        e == RunEnd(s, d + 1, IdentChars)
    IN IF i = 0 THEN <<>>
       ELSE IF d <= Len(s) /\ SubSeq(s, d, d) \in IdentStart
       THEN <<SubSeq(s, d, e)>> \o FindAllIdent(s, prefix, e + 1)
       ELSE FindAllIdent(s, prefix, i + 1)

\* re.search(prefix + r'([a-zA-Z_][a-zA-Z0-9_]*)', s): the name captured by
\* the leftmost match, "" when nothing matches
SearchIdent(s, prefix) ==
    LET all == FindAllIdent(s, prefix, 1) IN IF all = <<>> THEN "" ELSE all[1]

\* re.findall(r'\{' + inner + r'([^}]+)\}', s) where open is "{" + inner
RECURSIVE FindAllBraced(_, _, _)
FindAllBraced(s, open, from) ==
    LET i == FindFrom(s, open, from)
        d == i + Len(open)
        close == FindFrom(s, "}", d)
    IN IF i = 0 THEN <<>>
       ELSE IF close > d
       THEN <<SubSeq(s, d, close - 1)>> \o FindAllBraced(s, open, close + 1)
       ELSE FindAllBraced(s, open, i + 1)

\* the elements of a sequence as a set
Range(seq) == {seq[i] : i \in 1..Len(seq)}

(***************************************************************************)
(* rules/common.py: LintingRule                                            *)
(***************************************************************************)

\* the warnings list of a rule: created empty and emptied again at the start
\* of every process_nodes, like the errors list
NewWarnings == <<>>

\* the nodes process_nodes visits: those the rule applies to, in list order
applicable_nodes(nodes, target_node_types) ==
    SelectSeq(nodes, LAMBDA node : applies_to_rule(node, target_node_types))

(***************************************************************************)
(* rules/bad_component_reference.py                                        *)
(***************************************************************************)
forbidden_patterns ==
    <<".getSibling(", ".getParent(", ".getChild(", ".getChildren(",
      "self.parent.", "self.children.", "self.parent)", "self.children)",
      "self.parent,", "self.children,", "self.parent\n", "self.children\n",
      "self.parent\r", "self.children\r">>

BadTargetTypes == ALL_SCRIPTS \cup {"expression_binding"}

\* _check_content(content, path, content_type) with case_sensitive = True:
\* the errors list after the call
check_content(errors, content, path, content_type) ==
    LET found_patterns == SelectSeq(forbidden_patterns, LAMBDA pattern : Contains(content, pattern))
        main_pattern == found_patterns[1]
        pattern_msg == IF Len(found_patterns) > 1
                       THEN "'" \o main_pattern \o "' and " \o IntStr(Len(found_patterns) - 1)
                            \o " other object traversal pattern(s)"
                       ELSE "'" \o main_pattern \o "'"
    IN IF content = "" \/ found_patterns = <<>> THEN errors
       ELSE Append(errors, path \o ": " \o content_type \o " contains " \o pattern_msg
                \o " which creates brittle view structure dependencies. Consider using"
                \o " view.custom properties or message handling for component"
                \o " communication instead.")

\* node.accept(rule) for a BadComponentReferenceRule
BadVisit(errors, node) ==
    CASE node.node_type \in ALL_SCRIPTS -> check_content(errors, node.script, node.path, "Script")
      [] node.node_type = "expression_binding" /\ node.expression # "" ->
             check_content(errors, node.expression, node.path, "Expression")
      [] OTHER -> errors

RECURSIVE BadVisitAll(_, _, _)
BadVisitAll(errors, nodes, i) ==
    IF i > Len(nodes) THEN errors ELSE BadVisitAll(BadVisit(errors, nodes[i]), nodes, i + 1)

\* process_nodes(nodes) of a BadComponentReferenceRule
BadProcessNodes(rule, nodes) ==
    [errors |-> BadVisitAll(<<>>, applicable_nodes(nodes, BadTargetTypes), 1),
     warnings |-> NewWarnings]

(***************************************************************************)
(* rules/properties/unused_custom_properties.py                            *)
(***************************************************************************)
UnusedTargetTypes ==
    {"property", "component", "expression_binding", "property_binding", "tag_binding",
     "event_handler", "message_handler", "custom_method", "transform"}

\* UnusedCustomPropertiesRule.__init__
NewUnusedRule ==
    [errors |-> <<>>, warnings |-> NewWarnings, defined_properties |-> <<>>,
     used_properties |-> {}, flattened_json |-> <<>>]

\* visit_property(node): defined_properties after the call
visit_property(defined_properties, node) ==
    LET path == node.path
        rest == Drop(path, 7)
        prop_name == Last(Split(path, "."))
        custom_match == Contains(path, ".custom.") /\ EndsWith(path, ".custom." \o prop_name)
                        /\ prop_name # ""
        component_path == Split(path, ".custom.")[1]
        component_name == Last(Split(component_path, "."))
    IN CASE StartsWith(path, "custom.") /\ ~Contains(rest, ".") ->
                Put(defined_properties, "view.custom." \o rest, path)
         [] ~StartsWith(path, "custom.") /\ StartsWith(path, "params.") /\ ~Contains(rest, ".") ->
                Put(defined_properties, "view.params." \o rest, path)
         [] OTHER ->
                IF /\ ~(StartsWith(path, "custom.") /\ ~Contains(rest, "."))
                   /\ ~(StartsWith(path, "params.") /\ ~Contains(rest, "."))
                   /\ Contains(path, ".custom.") /\ ~StartsWith(path, "propConfig.")
                   /\ custom_match
                THEN Put(defined_properties, component_name \o ".custom." \o prop_name, path)
                ELSE defined_properties

\* _check_expression_for_references(expression): the usages it adds
check_expression_for_references(expression) ==
    {"view.custom." \o m : m \in Range(FindAllBraced(expression, "{view.custom.", 1))}
    \cup {"view.params." \o m : m \in Range(FindAllBraced(expression, "{view.params.", 1))}
    \cup {"*.custom." \o m : m \in Range(FindAllBraced(expression, "{this.custom.", 1))}
    \cup {"view.custom." \o m : m \in Range(FindAllBraced(expression, "{self.view.custom.", 1))}
    \cup {"view.params." \o m : m \in Range(FindAllBraced(expression, "{self.view.params.", 1))}

\* _check_script_for_references(script): the usages it adds
check_script_for_references(script) ==
    {"view.custom." \o m : m \in Range(FindAllIdent(script, "self.view.custom.", 1))}
    \cup {"view.params." \o m : m \in Range(FindAllIdent(script, "self.view.params.", 1))}
    \cup {"*.custom." \o m : m \in Range(FindAllIdent(script, "self.custom.", 1))}

\* node.accept(rule) for an UnusedCustomPropertiesRule
UnusedVisit(rule, node) ==
    CASE node.node_type = "property" ->
             [rule EXCEPT !.defined_properties = visit_property(@, node)]
      [] node.node_type = "expression_binding" ->
             [rule EXCEPT !.used_properties = @ \cup check_expression_for_references(node.expression)]
      [] node.node_type = "tag_binding" ->
             [rule EXCEPT !.used_properties = @ \cup check_expression_for_references(node.tag_path)]
      [] node.node_type \in ALL_SCRIPTS ->
             [rule EXCEPT !.used_properties = @ \cup check_script_for_references(node.script)]
      [] OTHER -> rule

RECURSIVE UnusedVisitAll(_, _, _)
UnusedVisitAll(rule, nodes, i) ==
    IF i > Len(nodes) THEN rule ELSE UnusedVisitAll(UnusedVisit(rule, nodes[i]), nodes, i + 1)

\* the search patterns _search_flattened_json_for_references builds for one
\* defined property
search_patterns(prop_path) ==
    LET name == Drop(prop_path, 12)
        parts == Split(prop_path, ".custom.")
    IN CASE StartsWith(prop_path, "view.custom.") ->
                <<"view.custom." \o name, "self.view.custom." \o name, "{" \o name \o "}">>
         [] ~StartsWith(prop_path, "view.custom.") /\ StartsWith(prop_path, "view.params.") ->
                <<"view.params." \o name, "self.view.params." \o name, "{" \o name \o "}">>
         [] OTHER ->
                IF Contains(prop_path, ".custom.")
                THEN <<parts[1] \o ".custom." \o parts[2], "this.custom." \o parts[2],
                       "self.custom." \o parts[2]>>
                ELSE <<>>

\* re.search(r'([^.]+)\.custom\.([a-zA-Z_][a-zA-Z0-9_]*)', pattern): the
\* usage "<component>.custom.<name>" of the leftmost match, "" when none
RECURSIVE SearchComponentCustom(_, _)
SearchComponentCustom(pattern, from) ==
    LET i == FindFrom(pattern, ".custom.", from)
        d == i + 8
        e == RunEnd(pattern, d + 1, IdentChars)
        starts == {b \in 1..(i - 1) : ~Contains(SubSeq(pattern, b, i - 1), ".")}
        b0 == CHOOSE b \in starts : \A c \in starts : b <= c
    IN IF i = 0 THEN ""
       ELSE IF starts # {} /\ d <= Len(pattern) /\ SubSeq(pattern, d, d) \in IdentStart
       THEN SubSeq(pattern, b0, i - 1) \o ".custom." \o SubSeq(pattern, d, e)
       ELSE SearchComponentCustom(pattern, i + 1)

\* _mark_property_used_from_pattern(pattern): the usages it adds
mark_property_used_from_pattern(pattern) ==
    LET view_custom == SearchIdent(pattern, "view.custom.")
        view_params == SearchIdent(pattern, "view.params.")
        wildcard == SearchIdent(pattern, ".custom.")
        specific == SearchComponentCustom(pattern, 1)
    IN CASE Contains(pattern, "view.custom.") ->
                IF view_custom # "" THEN {"view.custom." \o view_custom} ELSE {}
         [] ~Contains(pattern, "view.custom.") /\ Contains(pattern, "view.params.") ->
                IF view_params # "" THEN {"view.params." \o view_params} ELSE {}
         [] OTHER ->
                IF ~Contains(pattern, ".custom.") THEN {}
                ELSE IF StartsWith(pattern, "this.custom.") \/ StartsWith(pattern, "self.custom.")
                THEN (IF wildcard # "" THEN {"*.custom." \o wildcard} ELSE {})
                ELSE (IF specific # "" THEN {specific} ELSE {})

\* _search_flattened_json_for_references(): the usages it adds
search_flattened_json_for_references(rule) ==
    IF rule.flattened_json = <<>> \/ rule.defined_properties = <<>> THEN {}
    ELSE LET patterns == UNION {Range(search_patterns(rule.defined_properties[k].path)) :
                                   k \in 1..Len(rule.defined_properties)}
             values == {rule.flattened_json[i].val.s :
                           i \in {j \in 1..Len(rule.flattened_json) :
                                     rule.flattened_json[j].val.t = "str"}}
         IN UNION {mark_property_used_from_pattern(pattern) :
                      pattern \in {q \in patterns : \E v \in values : Contains(v, q)}}

\* the is_used test of finalize for one defined property
is_used(used_properties, prop_path) ==
    \/ prop_path \in used_properties
    \/ /\ Contains(prop_path, ".custom.")
       /\ ~StartsWith(prop_path, "view.")
       /\ ("*.custom." \o Last(Split(prop_path, ".custom."))) \in used_properties

\* a message that calls every unused property a custom property
UnlabelledMessage(prop_path, definition_location) ==
    definition_location \o ": custom property"
    \o " '" \o Last(Split(prop_path, ".")) \o "' is defined but never referenced"

\* the message finalize reports for one unused property
UnusedMessage(prop_path, definition_location) ==
    definition_location \o ": "
    \o (IF Contains(prop_path, ".params.") THEN "view parameter" ELSE "custom property")
    \o " '" \o Last(Split(prop_path, ".")) \o "' is defined but never referenced"

\* finalize()
finalize(rule) ==
    LET used == rule.used_properties \cup search_flattened_json_for_references(rule)
        unused_properties == SelectSeq(rule.defined_properties,
                                       LAMBDA d : ~is_used(used, d.path))
    IN [rule EXCEPT
          !.used_properties = used,
          !.errors = @ \o [k \in 1..Len(unused_properties) |->
                              UnusedMessage(unused_properties[k].path, unused_properties[k].val)]]

\* set_flattened_json(flattened_json) followed by process_nodes(nodes): the
\* base class empties errors (and warnings), visits the nodes, then finalize
UnusedProcessNodes(rule, fm, nodes) ==
    finalize(UnusedVisitAll([rule EXCEPT !.flattened_json = fm, !.errors = <<>>,
                                          !.warnings = NewWarnings],
                            applicable_nodes(nodes, UnusedTargetTypes), 1))

(***************************************************************************)
(* Python str methods on characters                                        *)
(***************************************************************************)
LowerAlpha == "abcdefghijklmnopqrstuvwxyz"
UpperAlpha == "ABCDEFGHIJKLMNOPQRSTUVWXYZ"
AlphaIndex(alpha, c) == CHOOSE i \in 1..26 : SubSeq(alpha, i, i) = c
UpperChar(c) == IF c \in LowerChars THEN LET i == AlphaIndex(LowerAlpha, c) IN SubSeq(UpperAlpha, i, i) ELSE c
LowerChar(c) == IF c \in UpperChars THEN LET i == AlphaIndex(UpperAlpha, c) IN SubSeq(LowerAlpha, i, i) ELSE c

\* s.upper()
RECURSIVE ToUpper(_)
ToUpper(s) == IF s = "" THEN "" ELSE UpperChar(SubSeq(s, 1, 1)) \o ToUpper(Drop(s, 1))

\* s.lower()
RECURSIVE ToLower(_)
ToLower(s) == IF s = "" THEN "" ELSE LowerChar(SubSeq(s, 1, 1)) \o ToLower(Drop(s, 1))

\* s.capitalize()
Capitalize(s) == IF s = "" THEN "" ELSE UpperChar(SubSeq(s, 1, 1)) \o ToLower(Drop(s, 1))

\* s.replace(old, new) for a non-empty old
RECURSIVE Replace(_, _, _)
Replace(s, old, new) ==
    LET i == FindFrom(s, old, 1)
    IN IF i = 0 THEN s
       ELSE SubSeq(s, 1, i - 1) \o new \o Replace(Drop(s, i + Len(old) - 1), old, new)

\* sep.join(parts)
RECURSIVE Join(_, _)
Join(parts, sep) ==
    IF Len(parts) = 0 THEN ""
    ELSE IF Len(parts) = 1 THEN parts[1]
    ELSE parts[1] \o sep \o Join(Tail(parts), sep)

\* every character of s is in cls
AllIn(s, cls) == \A i \in 1..Len(s) : SubSeq(s, i, i) \in cls

(***************************************************************************)
(* rules/name_pattern.py                                                   *)
(***************************************************************************)
NAMING_CONVENTIONS ==
    {"PascalCase", "camelCase", "snake_case", "kebab-case", "SCREAMING_SNAKE_CASE",
     "Title Case", "lower case"}

\* NAMING_CONVENTIONS[convention]['description']
ConventionDescription(convention) ==
    IF convention = "lower case"
    THEN "lower case with spaces (e.g., my button, data table)"
    ELSE convention

Whitespace == {" ", "\t", "\n", "\r", "\f"}

\* ^[A-Z][a-z]*(\s[A-Z][a-z]*)*$ from position i on, i at the start of a word
RECURSIVE TitleWords(_, _)
TitleWords(name, i) ==
    LET e == RunEnd(name, i + 1, LowerChars)
    IN /\ i <= Len(name)
       /\ SubSeq(name, i, i) \in UpperChars
       /\ \/ e = Len(name)
          \/ /\ e < Len(name)
             /\ SubSeq(name, e + 1, e + 1) \in Whitespace
             /\ TitleWords(name, e + 2)

\* re.match(NAMING_CONVENTIONS[convention]['pattern'], name)
MatchesConvention(convention, name) ==
    LET first == SubSeq(name, 1, 1)
        rest == Drop(name, 1)
    IN /\ name # ""
       /\ CASE convention = "PascalCase" ->
                   first \in UpperChars /\ AllIn(rest, LowerChars \cup UpperChars \cup DigitChars)
            [] convention = "camelCase" ->
                   first \in LowerChars /\ AllIn(rest, LowerChars \cup UpperChars \cup DigitChars)
            [] convention = "snake_case" ->
                   first \in LowerChars /\ AllIn(rest, LowerChars \cup DigitChars \cup {"_"})
            [] convention = "kebab-case" ->
                   first \in LowerChars /\ AllIn(rest, LowerChars \cup DigitChars \cup {"-"})
            [] convention = "SCREAMING_SNAKE_CASE" ->
                   first \in UpperChars /\ AllIn(rest, UpperChars \cup DigitChars \cup {"_"})
            [] convention = "Title Case" -> TitleWords(name, 1)
            [] convention = "lower case" ->
                   first \in LowerChars /\ AllIn(rest, LowerChars \cup Whitespace)
            [] OTHER -> FALSE

\* self.common_abbreviations, longest first (sorted(..., key=len, reverse=True))
common_abbreviations ==
    <<"HTTPS",
      "HTTP", "JSON", "UUID", "JPEG", "HTML", "DHCP", "CRUD", "REST", "SOAP", "AJAX",
      "RFID", "OLED", "macOS",
      "API", "XML", "SQL", "URL", "URI", "CPU", "GPU", "RAM", "SSD", "HDD", "PDF", "CSV",
      "ZIP", "GIF", "PNG", "JPG", "SVG", "CSS", "PHP", "ASP", "JSP", "CGI", "FTP", "SSH",
      "TCP", "UDP", "DNS", "VPN", "SSL", "TLS", "JWT", "DOM", "GUI", "CLI", "iOS", "AWS",
      "GCP", "IBM", "NLP", "OCR", "NFC", "GPS", "LED", "LCD", "CRT",
      "JS", "TS", "IP", "UI", "UX", "OS", "AI", "ML", "QR", "ID">>

\* NamePatternRule.__init__: a rule object from its keyword arguments.
\* target_node_types = {} stands for "not given"; convention = "" for None
NewNamePatternRule(convention, target_node_types, node_type_specific_rules, severity) ==
    [convention |-> convention,
     target_node_types |-> IF target_node_types # {} THEN target_node_types ELSE {"component"},
     node_type_specific_rules |-> node_type_specific_rules,
     severity |-> severity,
     pattern |-> IF convention \in NAMING_CONVENTIONS THEN convention ELSE "PascalCase",
     errors |-> <<>>, warnings |-> NewWarnings]

\* _get_node_specific_config(node_type, key, default_value)
get_node_specific_config(rule, node_type, key, default_value) ==
    IF node_type \in DOMAIN rule.node_type_specific_rules
    THEN (IF key \in DOMAIN rule.node_type_specific_rules[node_type]
          THEN rule.node_type_specific_rules[node_type][key]
          ELSE default_value)
    ELSE default_value

\* the 'pattern' a node type is validated against: the override generated by
\* _process_node_specific_rules from the override's convention, else the default
NodePattern(rule, node_type) ==
    LET convention == get_node_specific_config(rule, node_type, "convention", "")
    IN IF convention \in NAMING_CONVENTIONS THEN convention ELSE rule.pattern

\* _adjust_abbreviation_for_camel_case(name, abbrev)
adjust_abbreviation_for_camel_case(name, abbrev) ==
    LET up == ToUpper(abbrev)
        n1 == IF Contains(name, up) THEN Replace(name, up, up) ELSE name
        n2 == IF Contains(n1, ToLower(abbrev)) THEN Replace(n1, ToLower(abbrev), up) ELSE n1
    IN IF Contains(n2, Capitalize(abbrev)) THEN Replace(n2, Capitalize(abbrev), up) ELSE n2

\* _adjust_abbreviation_for_title_case(name, abbrev); name.split() splits on
\* runs of whitespace, which the names of the model hold as single blanks
adjust_abbreviation_for_title_case(name, abbrev) ==
    LET words == SelectSeq(Split(name, " "), LAMBDA w : w # "")
    IN Join([k \in 1..Len(words) |->
                IF ToUpper(words[k]) = ToUpper(abbrev) THEN ToUpper(abbrev) ELSE words[k]], " ")

\* one turn of the loop of _process_abbreviations, for an abbreviation that
\* occurs in name.upper()
apply_abbreviation(processed_name, convention, abbrev) ==
    CASE convention \in {"PascalCase", "camelCase"} ->
             adjust_abbreviation_for_camel_case(processed_name, abbrev)
      [] convention \in {"snake_case", "kebab-case"} ->
             Replace(processed_name, ToUpper(abbrev), ToLower(abbrev))
      [] convention = "SCREAMING_SNAKE_CASE" -> ToUpper(processed_name)
      [] convention = "Title Case" -> adjust_abbreviation_for_title_case(processed_name, abbrev)
      [] convention = "lower case" -> ToLower(processed_name)
      [] OTHER -> processed_name

RECURSIVE apply_abbreviations(_, _, _, _)
apply_abbreviations(processed_name, convention, abbrevs, k) ==
    IF k > Len(abbrevs) THEN processed_name
    ELSE apply_abbreviations(apply_abbreviation(processed_name, convention, abbrevs[k]),
                             convention, abbrevs, k + 1)

\* _process_abbreviations(name, node_type): the loop acts on the
\* abbreviations that occur in name.upper(), longest first
process_abbreviations(rule, name, node_type) ==
    LET upper == ToUpper(name)
        abbrevs == SelectSeq(common_abbreviations, LAMBDA abbrev : Contains(upper, abbrev))
    IN apply_abbreviations(name,
           get_node_specific_config(rule, node_type, "convention", rule.convention),
           abbrevs, 1)

\* the regular expressions of _split_name_into_parts
Delimiters == {"-", "_"} \cup Whitespace

\* re.split(r'[-_\s]+', s): the pieces between the runs of delimiters
RECURSIVE SplitDelims(_, _)
SplitDelims(s, from) ==
    LET hits == {i \in from..Len(s) : SubSeq(s, i, i) \in Delimiters}
        i == CHOOSE h \in hits : \A j \in hits : h <= j
        e == RunEnd(s, i, Delimiters)
    IN IF hits = {} THEN <<SubSeq(s, from, Len(s))>>
       ELSE <<SubSeq(s, from, i - 1)>> \o SplitDelims(s, e + 1)

\* s.strip()
RECURSIVE LStrip(_)
LStrip(s) == IF s # "" /\ SubSeq(s, 1, 1) \in Whitespace THEN LStrip(Drop(s, 1)) ELSE s
RECURSIVE RStrip(_)
RStrip(s) ==
    IF s # "" /\ SubSeq(s, Len(s), Len(s)) \in Whitespace
    THEN RStrip(SubSeq(s, 1, Len(s) - 1)) ELSE s
Strip(s) == RStrip(LStrip(s))

\* re.findall(r'[A-Z][a-z]*|[a-z]+|[A-Z]+(?=[A-Z][a-z]|$)', s) from index i on.
\* An upper-case letter always matches the first alternative, so the third
\* one never gets its turn.
RECURSIVE CamelParts(_, _)
CamelParts(s, i) ==
    LET c == SubSeq(s, i, i)
        eu == RunEnd(s, i + 1, LowerChars)
        el == RunEnd(s, i, LowerChars)
    IN IF i > Len(s) THEN <<>>
       ELSE IF c \in UpperChars THEN <<SubSeq(s, i, eu)>> \o CamelParts(s, eu + 1)
       ELSE IF c \in LowerChars THEN <<SubSeq(s, i, el)>> \o CamelParts(s, el + 1)
       ELSE CamelParts(s, i + 1)

\* _split_name_into_parts(name)
split_name_into_parts(name) ==
    LET parts == SplitDelims(Strip(name), 1)
        camel_parts == CamelParts(name, 1)
        chosen == IF Len(parts) = 1 /\ parts[1] # "" /\ Len(camel_parts) > 1
                  THEN camel_parts ELSE parts
    IN SelectSeq(chosen, LAMBDA part : part # "")

IsAbbreviation(part) == ToUpper(part) \in Range(common_abbreviations)

\* _to_pascal_case(name)
to_pascal_case(name) ==
    LET parts == split_name_into_parts(name)
    IN Join([k \in 1..Len(parts) |->
                IF IsAbbreviation(parts[k]) THEN ToUpper(parts[k]) ELSE Capitalize(parts[k])], "")

\* _to_camel_case(name)
to_camel_case(name) ==
    LET parts == split_name_into_parts(name)
    IN Join([k \in 1..Len(parts) |->
                IF IsAbbreviation(parts[k]) THEN ToUpper(parts[k])
                ELSE IF k = 1 THEN ToLower(parts[k]) ELSE Capitalize(parts[k])], "")

\* _to_snake_case(name)
to_snake_case(name) ==
    LET parts == split_name_into_parts(name)
    IN Join([k \in 1..Len(parts) |-> ToLower(parts[k])], "_")

\* _to_kebab_case(name)
to_kebab_case(name) ==
    LET parts == split_name_into_parts(name)
    IN Join([k \in 1..Len(parts) |-> ToLower(parts[k])], "-")

\* _to_title_case(name)
to_title_case(name) ==
    LET parts == split_name_into_parts(name)
    IN Join([k \in 1..Len(parts) |->
                IF IsAbbreviation(parts[k]) THEN ToUpper(parts[k]) ELSE Capitalize(parts[k])], " ")

\* _to_lower_case(name)
to_lower_case(name) ==
    LET parts == split_name_into_parts(name)
    IN Join([k \in 1..Len(parts) |-> ToLower(parts[k])], " ")

\* _suggest_name(name, node_type) for a convention of NAMING_CONVENTIONS
suggest_name(convention, name) ==
    CASE convention = "PascalCase" -> to_pascal_case(name)
      [] convention = "camelCase" -> to_camel_case(name)
      [] convention = "snake_case" -> to_snake_case(name)
      [] convention = "kebab-case" -> to_kebab_case(name)
      [] convention = "SCREAMING_SNAKE_CASE" -> ToUpper(to_snake_case(name))
      [] convention = "Title Case" -> to_title_case(name)
      [] convention = "lower case" -> to_lower_case(name)
      [] OTHER -> ""

\* self.skip_names: config.skip_names or {'root'}
skip_names == {"root"}

\* _validate_name(node, name): the list of messages (forbidden_names empty,
\* min_length 1 and max_length None, the defaults of NamePatternConfig)
validate_name(rule, node, name) ==
    LET node_type == node.node_type
        pattern == NodePattern(rule, node_type)
        processed_name == process_abbreviations(rule, name, node_type)
        node_convention == get_node_specific_config(rule, node_type, "convention", rule.convention)
        suggestion == suggest_name(node_convention, name)
        error_msg == "Name '" \o name \o "' doesn't follow " \o ConventionDescription(pattern)
                     \o " for " \o node_type
    IN IF name \in skip_names THEN <<>>
       ELSE IF Len(name) < 1
       THEN <<"Name '" \o name \o "' is too short (minimum 1 characters) for " \o node_type>>
       ELSE IF MatchesConvention(pattern, processed_name) THEN <<>>
       ELSE IF node_convention \in NAMING_CONVENTIONS /\ suggestion # ""
       THEN <<error_msg \o " (suggestion: '" \o suggestion \o "')">>
       ELSE <<error_msg>>

\* _extract_name_from_node(node), by the default name extractors
extract_name_from_node(node) ==
    CASE node.node_type \in {"component", "custom_method", "property"} -> node.name
      [] node.node_type = "message_handler" -> node.message_type
      [] node.node_type = "event_handler" -> node.event_type
      [] OTHER -> ""

\* the severity visit_generic files a violation under
ViolationSeverity(rule, node) == rule.severity

\* visit_generic(node)
visit_generic(rule, node) ==
    LET name == extract_name_from_node(node)
        found == [k \in 1..Len(validate_name(rule, node, name)) |->
                     node.path \o ": " \o validate_name(rule, node, name)[k]]
    IN IF name = "" THEN rule
       ELSE IF ViolationSeverity(rule, node) = "error"
       THEN [rule EXCEPT !.errors = @ \o found]
       ELSE [rule EXCEPT !.warnings = @ \o found]

\* node.accept(rule) for a NamePatternRule: the five visit methods that
\* delegate to visit_generic, the inherited empty ones otherwise
NameVisit(rule, node) ==
    IF node.node_type \in {"component", "message_handler", "custom_method", "property",
                           "event_handler"}
    THEN visit_generic(rule, node)
    ELSE rule

RECURSIVE NameVisitAll(_, _, _)
NameVisitAll(rule, nodes, i) ==
    IF i > Len(nodes) THEN rule ELSE NameVisitAll(NameVisit(rule, nodes[i]), nodes, i + 1)

\* process_nodes(nodes) of a NamePatternRule
NameProcessNodes(rule, nodes) ==
    NameVisitAll([rule EXCEPT !.errors = <<>>, !.warnings = NewWarnings],
                 applicable_nodes(nodes, rule.target_node_types), 1)

(***************************************************************************)
(* rules/performance/polling_interval.py: PollingIntervalRule              *)
(***************************************************************************)
ALL_BINDINGS ==
    {"expression_binding", "expression_struct_binding", "property_binding", "tag_binding",
     "query_binding"}

minimum_interval == 10000

\* PollingIntervalRule(minimum_interval, severity)
NewPollingIntervalRule(minimum, severity) ==
    [minimum_interval |-> minimum, severity |-> severity, errors |-> <<>>,
     warnings |-> NewWarnings]

\* LintingRule.add_violation(message): the message is filed under the
\* severity the rule was configured with
add_violation(rule, message) ==
    IF rule.severity = "error" THEN [rule EXCEPT !.errors = @ \o <<message>>]
    ELSE [rule EXCEPT !.warnings = @ \o <<message>>]

\* the characters of s at the indexes i..j that s has
Slice(s, i, j) == SubSeq(s, i, IF j <= Len(s) THEN j ELSE Len(s))

\* the index after the run of white space of s that starts at index i
SkipSpace(s, i) == RunEnd(s, i, Whitespace) + 1

\* re.findall(r'now\s*\(\s*(\d*)\s*\)', s) from index from on: the captured
\* digit strings of the matches, left to right
RECURSIVE NowIntervals(_, _)
NowIntervals(s, from) ==
    LET i == FindFrom(s, "now", from)
        open == SkipSpace(s, i + 3)
        d == SkipSpace(s, open + 1)
        e == DigitsEnd(s, d)
        close == SkipSpace(s, e + 1)
    IN IF i = 0 THEN <<>>
       ELSE IF Slice(s, open, open) = "(" /\ Slice(s, close, close) = ")"
       THEN <<SubSeq(s, d, e)>> \o NowIntervals(s, close + 1)
       ELSE NowIntervals(s, i + 1)

\* re.search(r'now\s*\(', s) finds a match
RECURSIVE NowCalled(_, _)
NowCalled(s, from) ==
    LET i == FindFrom(s, "now", from)
        open == SkipSpace(s, i + 3)
    IN IF i = 0 THEN FALSE
       ELSE Slice(s, open, open) = "(" \/ NowCalled(s, i + 1)

\* an interval is too short whenever it is below the minimum, zero included
zero_below_minimum(rule, expression) ==
    LET matches == NowIntervals(expression, 1)
    IN IF ~Contains(expression, "now") THEN TRUE
       ELSE IF matches = <<>> THEN ~NowCalled(expression, 1)
       ELSE \A k \in 1..Len(matches) :
                /\ Strip(matches[k]) # ""
                /\ ~(StrInt(matches[k]) < rule.minimum_interval)

\* PollingIntervalRule._is_valid_polling(expression)
is_valid_polling(rule, expression) ==
    LET matches == NowIntervals(expression, 1)
    IN IF ~Contains(expression, "now") THEN TRUE
       ELSE IF matches = <<>> THEN ~NowCalled(expression, 1)
       ELSE \A k \in 1..Len(matches) :
                /\ Strip(matches[k]) # ""
                /\ ~(0 < StrInt(matches[k]) /\ StrInt(matches[k]) < rule.minimum_interval)

\* PollingIntervalRule.visit_expression_binding(node)
visit_expression_binding(rule, node) ==
    IF Contains(node.expression, "now") /\ ~is_valid_polling(rule, node.expression)
    THEN add_violation(rule, node.path \o ": '" \o node.expression \o "'")
    ELSE rule

\* PollingIntervalRule.visit_tag_binding(node); the builder creates tag
\* bindings in direct mode, without references
visit_tag_binding(rule, node) ==
    IF node.mode = "expression" /\ Contains(node.tag_path, "now")
       /\ ~is_valid_polling(rule, node.tag_path)
    THEN add_violation(rule, node.path \o ": '" \o node.tag_path \o "'")
    ELSE rule

\* node.accept(rule) for a PollingIntervalRule
PollingVisit(rule, node) ==
    CASE node.node_type = "expression_binding" -> visit_expression_binding(rule, node)
      [] node.node_type = "tag_binding" -> visit_tag_binding(rule, node)
      [] OTHER -> rule

RECURSIVE PollingVisitAll(_, _, _)
PollingVisitAll(rule, nodes, i) ==
    IF i > Len(nodes) THEN rule
    ELSE PollingVisitAll(PollingVisit(rule, nodes[i]), nodes, i + 1)

\* process_nodes(nodes) of a PollingIntervalRule
PollingProcessNodes(rule, nodes) ==
    PollingVisitAll([rule EXCEPT !.errors = <<>>, !.warnings = NewWarnings],
                    applicable_nodes(nodes, ALL_BINDINGS), 1)

(***************************************************************************)
(* rules/scripts/lint_script.py: PylintScriptRule                          *)
(***************************************************************************)
Maximum(S) == CHOOSE x \in S : \A y \in S : y <= x
Minimum(S) == CHOOSE x \in S : \A y \in S : x <= y

\* ScriptNode.function_def of the four script variants
function_def(node) ==
    CASE node.node_type = "message_handler" -> "def onMessageReceived(self, payload):"
      [] node.node_type = "custom_method" ->
            "def " \o node.name \o "(" \o Join(<<"self">> \o node.params, ", ") \o "):"
      [] node.node_type = "transform" -> "def transform(self, value):"
      [] node.node_type = "event_handler" -> "def " \o node.event_type \o "(self, event):"
      [] OTHER -> "def undefined_function(self):"

\* ScriptNode.get_formatted_script()
get_formatted_script(node) ==
    function_def(node) \o "\n" \o (IF Strip(node.script) = "" THEN "\tpass" ELSE node.script)

\* the six lines that open the combined unit
StubLines ==
    <<"#pylint: disable=unused-argument,missing-docstring,invalid-name,redefined-outer-name",
      "# Stub for common globals, and to simulate the Ignition environment",
      "system = None  # Simulated Ignition system object",
      "self = {} # Simulated self object for script context",
      "event = {}  # Simulated event object",
      "">>

\* the loop of _combine_scripts from the i-th collected script on; line_map
\* is the dictionary line number -> script path
RECURSIVE CombineFrom(_, _, _, _, _)
CombineFrom(scripts, i, line_count, combined_scripts, line_map) ==
    IF i > Len(scripts) THEN [content |-> Join(combined_scripts, "\n"), line_map |-> line_map]
    ELSE LET header == "# Script " \o IntStr(i) \o ": " \o scripts[i].path
             formatted_script == get_formatted_script(scripts[i])
             script_lines == Cardinality(Occurrences(formatted_script, "\n")) + 1
             first == line_count + 1
             recorded == [ln \in first..(first + script_lines - 1) |-> scripts[i].path]
         IN CombineFrom(scripts, i + 1, first + script_lines + 1,
                        combined_scripts \o <<header, formatted_script, "">>,
                        recorded @@ line_map)

\* PylintScriptRule._combine_scripts(scripts): scripts are the collected
\* script nodes in the order of collection
combine_scripts(scripts) ==
    CombineFrom(scripts, 1, 1 + Len(StubLines), StubLines, <<>>)

\* the combined unit and the line map of _run_pylint_batch in
\* rules/lint_script.py, the copy the rules package exports: line_count
\* starts at 1 and the loop is that of _combine_scripts
batch_line_map(scripts) ==
    CombineFrom(scripts, 1, 1, StubLines, <<>>)

\* PylintScriptRule._find_script_for_line(line_num, line_map); "" stands for
\* None, which the caller tests the same way
find_script_for_line(line_num, line_map) ==
    LET reached == {ln \in DOMAIN line_map : ln <= line_num}
    IN IF reached = {} THEN "" ELSE line_map[Maximum(reached)]

\* the line of the combined unit, taken as it is reported
line_as_reported(line_num, script_path, line_map) == line_num

\* PylintScriptRule._calculate_relative_line(line_num, script_path, line_map)
calculate_relative_line(line_num, script_path, line_map) ==
    LET script_start_line == Minimum({ln \in DOMAIN line_map : line_map[ln] = script_path})
    IN line_num - script_start_line + 1

\* the pattern .*:(\d+):\d+: .+: (.+) tried with its first colon at index i
DiagnosticAt(line, i) ==
    LET e1 == DigitsEnd(line, i + 1)
        e2 == DigitsEnd(line, e1 + 2)
        rest == SubSeq(line, e2 + 3, Len(line))
        seps == {k \in 2..(Len(rest) - 2) : SubSeq(rest, k, k + 1) = ": "}
    IN IF /\ SubSeq(line, i, i) = ":"
          /\ e1 >= i + 1
          /\ Slice(line, e1 + 1, e1 + 1) = ":"
          /\ e2 >= e1 + 2
          /\ Slice(line, e2 + 1, e2 + 2) = ": "
          /\ seps # {}
       THEN [matched |-> TRUE, line_num |-> StrInt(SubSeq(line, i + 1, e1)),
             message |-> SubSeq(rest, Maximum(seps) + 2, Len(rest))]
       ELSE [matched |-> FALSE, line_num |-> 0, message |-> ""]

\* re.match(r'.*:(\d+):\d+: .+: (.+)', line): the greedy prefix takes the
\* last index the rest of the pattern matches from
match_diagnostic(line) ==
    LET tried == {i \in 1..Len(line) : DiagnosticAt(line, i).matched}
    IN IF tried = {} THEN [matched |-> FALSE, line_num |-> 0, message |-> ""]
       ELSE DiagnosticAt(line, Maximum(tried))

\* the loop of _parse_pylint_output from the i-th line of the output on
RECURSIVE ParseFrom(_, _, _, _)
ParseFrom(lines, i, line_map, path_to_issues) ==
    IF i > Len(lines) THEN path_to_issues
    ELSE LET match == match_diagnostic(lines[i])
             script_path == find_script_for_line(match.line_num, line_map)
             relative_line == calculate_relative_line(match.line_num, script_path, line_map)
             issue == "Line " \o IntStr(relative_line) \o ": " \o match.message
             updated ==
                 IF match.matched /\ script_path # "" /\ script_path \in DOMAIN path_to_issues
                 THEN [path_to_issues EXCEPT ![script_path] = @ \o <<issue>>]
                 ELSE path_to_issues
         IN ParseFrom(lines, i + 1, line_map, updated)

\* PylintScriptRule._parse_pylint_output(output, line_map, path_to_issues):
\* the dictionary path_to_issues once the output has been read
parse_pylint_output(output, line_map, path_to_issues) ==
    ParseFrom(Split(output, "\n"), 1, line_map, path_to_issues)

\* PylintScriptRule()
NewPylintScriptRule == [errors |-> <<>>, warnings |-> NewWarnings]

\* ScriptRule._collect_script(node): collected_scripts[node.path] = node on
\* the dictionary kept as the sequence of its values
collect_script(collected_scripts, node) ==
    IF \E k \in 1..Len(collected_scripts) : collected_scripts[k].path = node.path
    THEN [k \in 1..Len(collected_scripts) |->
            IF collected_scripts[k].path = node.path THEN node ELSE collected_scripts[k]]
    ELSE Append(collected_scripts, node)

RECURSIVE CollectAll(_, _, _)
CollectAll(collected_scripts, nodes, i) ==
    IF i > Len(nodes) THEN collected_scripts
    ELSE CollectAll(collect_script(collected_scripts, nodes[i]), nodes, i + 1)

\* what the analyzer and the file system do when the batch is run: the text
\* the analyzer writes, or the exception that leaves _create_temp_file (an
\* OSError of the file system, a UnicodeEncodeError of content.encode) or
\* _run_pylint_on_file (an ImportError, or whatever lint.Run raises)
Analyzed(output) == [raises |-> "", message |-> "", output |-> output]
Failed(exception, message) == [raises |-> exception, message |-> message, output |-> ""]

\* PylintScriptRule._handle_pylint_error(error_msg, debug_dir, path_to_issues)
handle_pylint_error(error_msg, path_to_issues) ==
    [path \in DOMAIN path_to_issues |-> path_to_issues[path] \o <<error_msg>>]

\* PylintScriptRule._run_pylint_batch(scripts): the dictionary it returns, or
\* the exception that leaves it
run_pylint_batch(scripts, tool) ==
    LET combined == combine_scripts(scripts)
        path_to_issues == [path \in {scripts[k].path : k \in 1..Len(scripts)} |-> <<>>]
    IN CASE tool.raises = "" ->
              [raised |-> "",
               path_to_issues |->
                  parse_pylint_output(tool.output, combined.line_map, path_to_issues)]
         [] tool.raises \in {"OSError", "IOError"} ->
              [raised |-> "",
               path_to_issues |->
                  handle_pylint_error("Error with file operations during pylint: "
                                      \o tool.message, path_to_issues)]
         [] tool.raises = "ImportError" ->
              [raised |-> "",
               path_to_issues |->
                  handle_pylint_error("Error importing pylint modules: " \o tool.message,
                                      path_to_issues)]
         [] OTHER -> [raised |-> tool.raises, path_to_issues |-> path_to_issues]

\* the source units lint.Run is called on while _run_pylint_batch runs: the
\* combined unit, unless _create_temp_file has raised before the call
analyzer_runs(scripts, tool) ==
    IF tool.raises \in {"OSError", "IOError", "UnicodeEncodeError"}
    THEN <<>>
    ELSE <<combine_scripts(scripts).content>>

\* the loop of process_scripts over the scripts in the order of collection
RECURSIVE IssuesFrom(_, _, _)
IssuesFrom(scripts, path_to_issues, i) ==
    IF i > Len(scripts) THEN <<>>
    ELSE LET path == scripts[i].path
         IN [k \in 1..Len(path_to_issues[path]) |-> path \o ": " \o path_to_issues[path][k]]
            \o IssuesFrom(scripts, path_to_issues, i + 1)

\* process_nodes(nodes) of a PylintScriptRule: the visits collect the
\* scripts, post_process hands them to process_scripts when there are any
PylintProcessNodes(rule, nodes, tool) ==
    LET scripts == CollectAll(<<>>, applicable_nodes(nodes, ALL_SCRIPTS), 1)
        batch == run_pylint_batch(scripts, tool)
    IN IF scripts = <<>>
       THEN [raised |-> "", analyzed |-> <<>>, rule |-> [rule EXCEPT !.errors = <<>>]]
       ELSE [raised |-> batch.raised, analyzed |-> analyzer_runs(scripts, tool),
             rule |-> [rule EXCEPT !.errors = IssuesFrom(scripts, batch.path_to_issues, 1)]]

(***************************************************************************)
(* The view documents the engine is run on                                 *)
(***************************************************************************)
MaxArrayLen == 2
MaxRuns == 2

\* a view whose custom section holds an array of n strings
ArrayDoc(n) ==
    JDict(<<
        KV("custom", JDict(<<KV("MyArrayProperty", JList([i \in 1..n |-> JStr("item" \o IntStr(i))]))>>)),
        KV("params", JDict(<<>>)),
        KV("props", JDict(<<>>)),
        KV("root", JDict(<<
            KV("meta", JDict(<<KV("name", JStr("root"))>>)),
            KV("type", JStr("ia.container.coord"))>>))>>)

NameDoc ==
    JDict(<<
        KV("custom", JDict(<<KV("BadProp", JNum(1)), KV("goodProp", JNum(2))>>)),
        KV("root", JDict(<<
            KV("meta", JDict(<<KV("name", JStr("root"))>>)),
            KV("children", JList(<<JDict(<<
                    KV("meta", JDict(<<KV("name", JStr("badButton"))>>)),
                    KV("props", JDict(<<KV("text", JStr("x"))>>))>>), JDict(<<
                    KV("meta", JDict(<<KV("name", JStr("GoodLabel"))>>)),
                    KV("custom", JDict(<<KV("Local_prop", JNum(1))>>))>>)>>))>>))>>)

StyleDoc ==
    JDict(<<
        KV("root", JDict(<<
            KV("meta", JDict(<<KV("name", JStr("root"))>>)),
            KV("props", JDict(<<
                KV("style", JDict(<<KV("background-color", JStr("red"))>>)),
                KV("text", JStr("hi"))>>)),
            KV("children", JList(<<JDict(<<
                    KV("meta", JDict(<<KV("name", JStr("Label"))>>)),
                    KV("props", JDict(<<KV("elementStyle", JDict(<<KV("font-size", JStr("12"))>>))>>))>>)>>))>>))>>)

ScriptsDoc ==
    JDict(<<
        KV("root", JDict(<<
            KV("meta", JDict(<<KV("name", JStr("root"))>>)),
            KV("props", JDict(<<
                KV("text", JDict(<<
                    KV("binding", JDict(<<
                        KV("type", JStr("expr")),
                        KV("config", JDict(<<KV("expression", JStr("{this.getSibling(1)}"))>>)),
                        KV("transforms", JList(<<JDict(<<
                                KV("type", JStr("script")),
                                KV("script", JStr("value.getParent()"))>>)>>))>>))>>))>>)),
            KV("scripts", JDict(<<
                KV("messageHandlers", JList(<<JDict(<<
                        KV("messageType", JStr("msg")),
                        KV("script", JStr("self.getParent().getChild('a')")),
                        KV("viewScope", JBool(TRUE))>>)>>))>>)),
            KV("children", JList(<<JDict(<<
                    KV("meta", JDict(<<KV("name", JStr("Button"))>>)),
                    KV("events", JDict(<<
                        KV("onClick", JDict(<<
                            KV("script", JStr("self.getChild('a')")),
                            KV("scope", JStr("G"))>>))>>)),
                    KV("scripts", JDict(<<
                        KV("customMethods", JList(<<JDict(<<
                                KV("name", JStr("run")),
                                KV("params", JList(<<JStr("a")>>)),
                                KV("script", JStr("self.parent.x = 1"))>>), JDict(<<KV("name", JStr("stop")), KV("script", JStr("return 1"))>>)>>))>>))>>)>>))>>))>>)

ConfigScriptsDoc ==
    JDict(<<
        KV("propConfig", JDict(<<
            KV("root.children[0].props.text", JDict(<<
                KV("binding", JDict(<<
                    KV("type", JStr("property")),
                    KV("config", JDict(<<KV("path", JStr("view.params.inputValue"))>>)),
                    KV("transforms", JList(<<JDict(<<
                            KV("type", JStr("script")),
                            KV("script", JStr("self.getSibling('a')"))>>)>>))>>))>>))>>)),
        KV("root", JDict(<<
            KV("meta", JDict(<<KV("name", JStr("root"))>>)),
            KV("events", JDict(<<
                KV("onStartup", JDict(<<KV("config", JDict(<<KV("script", JStr("self.children.x"))>>))>>))>>)),
            KV("children", JList(<<JDict(<<
                    KV("meta", JDict(<<KV("name", JStr("Label"))>>)),
                    KV("props", JDict(<<KV("text", JStr("t"))>>))>>)>>))>>))>>)

UnusedDoc ==
    JDict(<<
        KV("custom", JDict(<<KV("unusedProp", JNum(1))>>)),
        KV("root", JDict(<<KV("meta", JDict(<<KV("name", JStr("root"))>>))>>))>>)

UsedInRootDoc ==
    JDict(<<
        KV("custom", JDict(<<KV("unusedProp", JNum(1))>>)),
        KV("root", JDict(<<
            KV("meta", JDict(<<KV("name", JStr("root"))>>)),
            KV("props", JDict(<<
                KV("text", JDict(<<
                    KV("binding", JDict(<<
                        KV("type", JStr("expr")),
                        KV("config", JDict(<<KV("expression", JStr("{view.custom.unusedProp}"))>>))>>))>>))>>))>>))>>)

UsedInChildDoc ==
    JDict(<<
        KV("custom", JDict(<<KV("unusedProp", JNum(1))>>)),
        KV("root", JDict(<<
            KV("meta", JDict(<<KV("name", JStr("root"))>>)),
            KV("children", JList(<<JDict(<<
                    KV("meta", JDict(<<KV("name", JStr("Label"))>>)),
                    KV("props", JDict(<<
                        KV("text", JDict(<<
                            KV("binding", JDict(<<
                                KV("type", JStr("expr")),
                                KV("config", JDict(<<KV("expression", JStr("{view.custom.unusedProp}"))>>))>>))>>))>>))>>)>>))>>))>>)

UsedFirstDoc ==
    JDict(<<
        KV("props", JDict(<<
            KV("title", JDict(<<
                KV("binding", JDict(<<
                    KV("type", JStr("expr")),
                    KV("config", JDict(<<KV("expression", JStr("{view.custom.unusedProp}"))>>))>>))>>))>>)),
        KV("custom", JDict(<<KV("unusedProp", JNum(1))>>)),
        KV("root", JDict(<<KV("meta", JDict(<<KV("name", JStr("root"))>>))>>))>>)

UsedInConfigDoc ==
    JDict(<<
        KV("custom", JDict(<<KV("unusedProp", JNum(1))>>)),
        KV("root", JDict(<<KV("meta", JDict(<<KV("name", JStr("root"))>>))>>)),
        KV("propConfig", JDict(<<
            KV("custom.other", JDict(<<
                KV("binding", JDict(<<
                    KV("type", JStr("expr")),
                    KV("config", JDict(<<KV("expression", JStr("{view.custom.unusedProp}"))>>))>>))>>))>>))>>)

ParamsDoc ==
    JDict(<<
        KV("params", JDict(<<KV("inParam", JNum(1)), KV("usedParam", JNum(2))>>)),
        KV("custom", JDict(<<KV("count", JNum(0))>>)),
        KV("root", JDict(<<
            KV("meta", JDict(<<KV("name", JStr("root"))>>)),
            KV("props", JDict(<<
                KV("text", JDict(<<
                    KV("binding", JDict(<<
                        KV("type", JStr("expr")),
                        KV("config", JDict(<<KV("expression", JStr("{view.params.usedParam}"))>>))>>))>>))>>))>>))>>)

WildcardDoc ==
    JDict(<<
        KV("root", JDict(<<
            KV("meta", JDict(<<KV("name", JStr("root"))>>)),
            KV("children", JList(<<JDict(<<
                    KV("meta", JDict(<<KV("name", JStr("Button"))>>)),
                    KV("custom", JDict(<<KV("state", JNum(1))>>)),
                    KV("scripts", JDict(<<
                        KV("customMethods", JList(<<JDict(<<
                                KV("name", JStr("run")),
                                KV("script", JStr("return self.custom.state"))>>)>>))>>))>>), JDict(<<
                    KV("meta", JDict(<<KV("name", JStr("Label"))>>)),
                    KV("custom", JDict(<<KV("state", JNum(2)), KV("spare", JNum(3)), KV("mode", JNum(4))>>)),
                    KV("props", JDict(<<
                        KV("text", JDict(<<
                            KV("binding", JDict(<<
                                KV("type", JStr("expr")),
                                KV("config", JDict(<<KV("expression", JStr("{this.custom.mode}"))>>))>>))>>))>>))>>)>>))>>))>>)

WildcardArrayDoc ==
    JDict(<<
        KV("root", JDict(<<
            KV("meta", JDict(<<KV("name", JStr("root"))>>)),
            KV("children", JList(<<JDict(<<
                    KV("meta", JDict(<<KV("name", JStr("Button"))>>)),
                    KV("custom", JDict(<<KV("items", JList(<<JStr("a"), JStr("b")>>))>>)),
                    KV("props", JDict(<<KV("text", JStr("self.custom.items"))>>))>>)>>))>>))>>)

ViewNamedDoc ==
    JDict(<<
        KV("root", JDict(<<
            KV("meta", JDict(<<KV("name", JStr("root"))>>)),
            KV("children", JList(<<JDict(<<
                    KV("meta", JDict(<<KV("name", JStr("view"))>>)),
                    KV("custom", JDict(<<KV("state", JNum(1))>>)),
                    KV("props", JDict(<<KV("text", JStr("self.custom.state"))>>))>>)>>))>>))>>)

PersistDoc ==
    JDict(<<
        KV("custom", JDict(<<
            KV("kept", JNum(1)),
            KV("runtime", JNum(2)),
            KV("configured", JNum(3)),
            KV("flagged", JNum(4))>>)),
        KV("params", JDict(<<KV("transient", JNum(5))>>)),
        KV("propConfig", JDict(<<
            KV("custom.runtime", JDict(<<KV("persistent", JBool(FALSE))>>)),
            KV("custom.configured", JDict(<<KV("access", JStr("PRIVATE"))>>)),
            KV("custom.flagged", JDict(<<KV("persistent", JBool(TRUE))>>)),
            KV("params.transient", JDict(<<KV("persistent", JBool(FALSE)), KV("paramDirection", JStr("input"))>>))>>)),
        KV("root", JDict(<<KV("meta", JDict(<<KV("name", JStr("root"))>>))>>))>>)

ComponentPersistDoc ==
    JDict(<<
        KV("propConfig", JDict(<<
            KV("root.root.children[0].Button.custom.runtime", JDict(<<KV("persistent", JBool(FALSE))>>)),
            KV("root.root.children[0].Button.custom.configured", JDict(<<KV("access", JStr("PRIVATE"))>>))>>)),
        KV("root", JDict(<<
            KV("meta", JDict(<<KV("name", JStr("root"))>>)),
            KV("children", JList(<<JDict(<<
                    KV("meta", JDict(<<KV("name", JStr("Button"))>>)),
                    KV("custom", JDict(<<
                        KV("kept", JNum(1)),
                        KV("runtime", JNum(2)),
                        KV("configured", JNum(3))>>))>>)>>))>>))>>)

ArrayPersistDoc ==
    JDict(<<
        KV("custom", JDict(<<KV("rows", JList(<<JStr("a"), JStr("b")>>))>>)),
        KV("propConfig", JDict(<<KV("custom.rows", JDict(<<KV("persistent", JBool(FALSE))>>))>>)),
        KV("root", JDict(<<KV("meta", JDict(<<KV("name", JStr("root"))>>))>>))>>)

QueryBindingDoc ==
    JDict(<<
        KV("root", JDict(<<
            KV("meta", JDict(<<KV("name", JStr("root"))>>)),
            KV("props", JDict(<<
                KV("data", JDict(<<
                    KV("binding", JDict(<<
                        KV("type", JStr("query")),
                        KV("config", JDict(<<KV("queryPath", JStr("Orders/all"))>>))>>))>>)),
                KV("text", JDict(<<
                    KV("binding", JDict(<<
                        KV("type", JStr("expr")),
                        KV("config", JDict(<<KV("expression", JStr("{view.params.title}"))>>))>>))>>))>>))>>))>>)

PartialDoc ==
    JDict(<<
        KV("root", JDict(<<
            KV("meta", JDict(<<KV("name", JStr("root"))>>)),
            KV("props", JDict(<<
                KV("a", JDict(<<KV("binding", JDict(<<KV("type", JStr("expr"))>>))>>)),
                KV("b", JDict(<<
                    KV("binding", JDict(<<
                        KV("type", JStr("property")),
                        KV("config", JDict(<<KV("bidirectional", JBool(FALSE))>>))>>))>>)),
                KV("c", JDict(<<
                    KV("binding", JDict(<<
                        KV("type", JStr("tag")),
                        KV("transforms", JList(<<JDict(<<KV("type", JStr("script"))>>)>>))>>))>>))>>)),
            KV("scripts", JDict(<<
                KV("messageHandlers", JList(<<JDict(<<KV("messageType", JStr("refresh"))>>)>>)),
                KV("customMethods", JList(<<JDict(<<KV("params", JList(<<JStr("p")>>))>>)>>))>>)),
            KV("events", JDict(<<KV("onClick", JDict(<<KV("script", JStr("pass"))>>))>>)),
            KV("children", JList(<<JDict(<<
                    KV("meta", JDict(<<KV("name", JStr("Label"))>>)),
                    KV("type", JStr("ia.display.label"))>>)>>))>>))>>)

\* a view whose components carry event scripts in both shapes, one of the
\* components being named scriptRunner
EventsDoc ==
    JDict(<<
        KV("root", JDict(<<
            KV("meta", JDict(<<KV("name", JStr("root"))>>)),
            KV("children", JList(<<JDict(<<
                    KV("meta", JDict(<<KV("name", JStr("Button"))>>)),
                    KV("events", JDict(<<
                        KV("onClick", JDict(<<KV("script", JStr("\tx = 1"))>>))>>))>>), JDict(<<
                    KV("meta", JDict(<<KV("name", JStr("scriptRunner"))>>)),
                    KV("events", JDict(<<
                        KV("onClick", JDict(<<
                            KV("script", JStr("\tx = 1")),
                            KV("scope", JStr("G"))>>))>>))>>), JDict(<<
                    KV("meta", JDict(<<KV("name", JStr("Timer"))>>)),
                    KV("events", JDict(<<
                        KV("onStartup", JDict(<<
                            KV("config", JDict(<<KV("script", JStr("\tx = 1"))>>)),
                            KV("scope", JStr("G"))>>))>>))>>)>>))>>))>>)

\* a view whose custom properties and parameters, and those of a component,
\* have names that are prefixes of each other, with references to the longer
\* names only
PrefixDoc ==
    JDict(<<
        KV("custom", JDict(<<KV("foo", JNum(1)), KV("fooBar", JNum(2))>>)),
        KV("params", JDict(<<KV("id", JNum(1)), KV("idList", JNum(2))>>)),
        KV("root", JDict(<<
            KV("meta", JDict(<<KV("name", JStr("root"))>>)),
            KV("children", JList(<<JDict(<<
                    KV("meta", JDict(<<KV("name", JStr("Label"))>>)),
                    KV("custom", JDict(<<KV("tag", JNum(1)), KV("tagPath", JNum(2))>>)),
                    KV("props", JDict(<<
                        KV("text", JDict(<<
                            KV("binding", JDict(<<
                                KV("type", JStr("expr")),
                                KV("config", JDict(<<KV("expression", JStr("{view.custom.fooBar} + {view.params.idList} + {this.custom.tagPath}"))>>))>>))>>))>>))>>)>>))>>))>>)

Docs ==
    <<NameDoc, StyleDoc, ScriptsDoc, ConfigScriptsDoc,
      UnusedDoc, UsedInRootDoc, UsedInChildDoc, UsedFirstDoc,
      UsedInConfigDoc, ParamsDoc, WildcardDoc, WildcardArrayDoc,
      ViewNamedDoc, PersistDoc, ComponentPersistDoc, ArrayPersistDoc,
      QueryBindingDoc, PartialDoc, EventsDoc, PrefixDoc>>

Documents == Range(Docs) \cup {ArrayDoc(n) : n \in 1..MaxArrayLen}

(***************************************************************************)
(* The rule configurations of the engine: the keyword arguments of         *)
(* NamePatternRule                                                         *)
(***************************************************************************)
ComponentsAndProperties(component_severity) ==
    [component |-> [convention |-> "PascalCase", severity |-> component_severity],
     property |-> [convention |-> "camelCase", severity |-> "warning"]]

NoOverrides == [t \in {} |-> [convention |-> "", severity |-> ""]]

NameRules ==
    {NewNamePatternRule("camelCase", {"property"}, NoOverrides, "error"),
     NewNamePatternRule("", {"component", "property"}, ComponentsAndProperties("error"), "warning"),
     NewNamePatternRule("", {}, ComponentsAndProperties("warning"), "warning")}

(***************************************************************************)
(* linter.py: LintEngine                                                   *)
(***************************************************************************)
VARIABLES flattened_json, view_model, name_rule, unused_rule, bad_rule, results, runs

\* the arguments of a function that is called on its own, outside a run of
\* the engine, and the value it has returned
VARIABLES args, returned

engine_vars == <<flattened_json, view_model, name_rule, unused_rule, bad_rule, results, runs>>

vars == <<flattened_json, view_model, name_rule, unused_rule, bad_rule, results, runs,
          args, returned>>

\* no function is being called on its own
NoCall == args = [fn |-> "none"] /\ returned = [done |-> FALSE]

\* the value a call has returned
Returned(value) == [done |-> TRUE, value |-> value]

RuleKeys == {"NamePatternRule", "UnusedCustomPropertiesRule", "BadComponentReferenceRule"}

\* results that fail on any message, warnings included
failing_on_warnings(name, unused, bad) ==
    LET collected(field) ==
            [key \in RuleKeys |->
                CASE key = "NamePatternRule" -> name[field]
                  [] key = "UnusedCustomPropertiesRule" -> unused[field]
                  [] OTHER -> bad[field]]
    IN [warnings |-> collected("warnings"), errors |-> collected("errors"),
        has_errors |-> \E key \in RuleKeys :
                          collected("errors")[key] # <<>> \/ collected("warnings")[key] # <<>>]

\* LintResults(warnings, errors, has_errors); a rule key whose list is empty
\* is a key the dictionary does not hold
LintResults(name, unused, bad) ==
    LET collected(field) ==
            [key \in RuleKeys |->
                CASE key = "NamePatternRule" -> name[field]
                  [] key = "UnusedCustomPropertiesRule" -> unused[field]
                  [] OTHER -> bad[field]]
    IN [warnings |-> collected("warnings"), errors |-> collected("errors"),
        has_errors |-> \E key \in RuleKeys : collected("errors")[key] # <<>>]

NoResults ==
    [warnings |-> [key \in RuleKeys |-> <<>>], errors |-> [key \in RuleKeys |-> <<>>],
     has_errors |-> FALSE]

\* LintEngine(rules): the engine and its three rule objects once constructed
Init ==
    /\ flattened_json = <<>>
    /\ view_model = EmptyModel
    /\ name_rule \in NameRules
    /\ unused_rule = NewUnusedRule
    /\ bad_rule = [errors |-> <<>>, warnings |-> NewWarnings]
    /\ results = NoResults
    /\ runs = 0
    /\ NoCall

\* an engine that has been constructed with the naming rule and is not run
Constructed(rule) ==
    /\ flattened_json = <<>>
    /\ view_model = EmptyModel
    /\ name_rule = rule
    /\ unused_rule = NewUnusedRule
    /\ bad_rule = [errors |-> <<>>, warnings |-> NewWarnings]
    /\ results = NoResults
    /\ runs = 0

\* process on a builder that keeps the lists of the model it returned last
process_without_reset(doc) ==
    /\ runs < MaxRuns
    /\ flattened_json' = Flatten(doc)
    /\ view_model' = collect(view_model, flattened_json')
    /\ LET all_nodes == AllNodes(view_model', 1)
       IN /\ name_rule' = NameProcessNodes(name_rule, all_nodes)
          /\ unused_rule' = UnusedProcessNodes(unused_rule, flattened_json', all_nodes)
          /\ bad_rule' = BadProcessNodes(bad_rule, all_nodes)
    /\ results' = LintResults(name_rule', unused_rule', bad_rule')
    /\ runs' = runs + 1
    /\ UNCHANGED <<args, returned>>

\* LintEngine.process(flattened_json) on the flattened document
Process(doc) ==
    /\ runs < MaxRuns
    /\ flattened_json' = Flatten(doc)
    /\ view_model' = build_model(flattened_json')
    /\ LET all_nodes == AllNodes(view_model', 1)
       IN /\ name_rule' = NameProcessNodes(name_rule, all_nodes)
          /\ unused_rule' = UnusedProcessNodes(unused_rule, flattened_json', all_nodes)
          /\ bad_rule' = BadProcessNodes(bad_rule, all_nodes)
    /\ results' = LintResults(name_rule', unused_rule', bad_rule')
    /\ runs' = runs + 1
    /\ UNCHANGED <<args, returned>>

Next == \E doc \in Documents : Process(doc)

Spec == Init /\ [][Next]_vars

(***************************************************************************)
(* flatten_json called on its own, on trees of component objects           *)
(***************************************************************************)
MaxDepth == 2

\* the values of meta.name: no name, and two names
ComponentNames == {"", "A", "B"}

\* an object with meta.name, a property, its children in a list and its
\* children under the key "slot"
ComponentObject(name, children, slots) ==
    JDict(<<KV("meta", JDict(<<KV("name", JStr(name))>>)), KV("text", JStr("t"))>>
          \o (IF children = <<>> THEN <<>> ELSE <<KV("children", JList(children))>>)
          \o [k \in 1..Len(slots) |-> KV("slot", slots[k])])

RECURSIVE ComponentTrees(_)
ComponentTrees(depth) ==
    LET single == {ComponentObject(n, <<>>, <<>>) : n \in ComponentNames}
    IN IF depth = 0 THEN single
       ELSE LET below == ComponentTrees(depth - 1)
            IN single
               \cup {ComponentObject(n, <<c>>, <<>>) : n \in ComponentNames, c \in below}
               \cup {ComponentObject(n, <<>>, <<c>>) : n \in ComponentNames, c \in below}
               \cup {ComponentObject(n, <<c, d>>, <<>>) :
                        n \in ComponentNames, c \in single, d \in single}

\* values made only of empty arrays, nested in objects and arrays
RECURSIVE HollowValues(_)
HollowValues(depth) ==
    IF depth = 0 THEN {JList(<<>>)}
    ELSE LET below == HollowValues(depth - 1)
         IN below
            \cup {JDict(<<KV("items", h)>>) : h \in below}
            \cup {JDict(<<KV("items", a), KV("nested", b)>>) : a \in below, b \in below}
            \cup {JList(<<h>>) : h \in below}

\* the documents: a tree under the key "root", or a top-level list of one; a
\* document made only of empty arrays; a component that holds such a value
JsonInputs ==
    {JDict(<<KV("root", tree)>>) : tree \in ComponentTrees(MaxDepth)}
    \cup {JList(<<tree>>) : tree \in ComponentTrees(MaxDepth - 1)}
    \cup HollowValues(MaxDepth)
    \cup {JDict(<<KV("root", ComponentObject(n, <<>>, <<h>>))>>) :
              n \in ComponentNames, h \in HollowValues(MaxDepth - 1)}

FlattenInit ==
    /\ Constructed(NewNamePatternRule("camelCase", {"property"}, NoOverrides, "error"))
    /\ args \in {[fn |-> fn, data |-> data] :
                 fn \in {"flatten_json", "flatten_file"}, data \in JsonInputs}
    /\ returned = [done |-> FALSE]

\* flatten_json(data)
FlattenCall ==
    /\ args.fn = "flatten_json"
    /\ ~returned.done
    /\ returned' = Returned(flatten_json(args.data, "", <<>>))
    /\ UNCHANGED args
    /\ UNCHANGED engine_vars

\* flatten_file(file_path) on a file that holds the document
FlattenFileCall ==
    /\ args.fn = "flatten_file"
    /\ ~returned.done
    /\ returned' = Returned(flatten_file(args.data))
    /\ UNCHANGED args
    /\ UNCHANGED engine_vars

FlattenNext == FlattenCall \/ FlattenFileCall

FlattenSpec == FlattenInit /\ [][FlattenNext]_vars

(***************************************************************************)
(* _parse_pylint_output called on its own, on the output of the analyzer   *)
(* for one diagnostic and the line maps of one or two scripts              *)
(***************************************************************************)
MaxScriptLines == 2
MaxLine == 46

\* a script body of n lines
ScriptOfLines(n) == Join([k \in 1..n |-> "\tpass"], "\n")

ScriptLists ==
    LET transform(n) == TransformScript("root.props.text.transforms[0]", ScriptOfLines(n), "root.props.text")
        handler(n) == EventHandlerScript("root.events.dom.onClick", "dom", "onClick", ScriptOfLines(n), "L")
    IN {<<transform(n)>> : n \in 1..MaxScriptLines}
       \cup {<<transform(n), handler(m)>> : n \in 1..MaxScriptLines, m \in 1..MaxScriptLines}

\* two synthetic scripts recorded from lines 10 and 40 of the combined unit
OffsetMap == [ln \in 10..12 |-> "first"] @@ [ln \in 40..46 |-> "second"]

LineMaps == {combine_scripts(scripts).line_map : scripts \in ScriptLists} \cup {OffsetMap}

DiagnosticMessage == "Undefined variable 'x' (undefined-variable)"

\* the text the analyzer writes for one diagnostic at a line of the unit
PylintOutput(line_num) ==
    "************* Module t\n" \o "t.py:" \o IntStr(line_num) \o ":0: E0602: "
    \o DiagnosticMessage \o "\n"

ScriptPaths(line_map) == {line_map[ln] : ln \in DOMAIN line_map}

RemapInit ==
    /\ Constructed(NewNamePatternRule("camelCase", {"property"}, NoOverrides, "error"))
    /\ args \in {[fn |-> "_parse_pylint_output", output |-> PylintOutput(line_num),
                  line_map |-> line_map, line_num |-> line_num,
                  path_to_issues |-> [path \in ScriptPaths(line_map) |-> <<>>]] :
                 line_map \in LineMaps, line_num \in 1..MaxLine}
    /\ returned = [done |-> FALSE]

RemapCall ==
    /\ ~returned.done
    /\ returned' = Returned(parse_pylint_output(args.output, args.line_map, args.path_to_issues))
    /\ UNCHANGED args
    /\ UNCHANGED engine_vars

RemapSpec == RemapInit /\ [][RemapCall]_vars

(***************************************************************************)
(* The scripts of a view combined into one unit, by _combine_scripts of    *)
(* rules/scripts/lint_script.py and by _run_pylint_batch of                *)
(* rules/lint_script.py                                                    *)
(***************************************************************************)
\* script bodies: none, and one to MaxScriptLines lines
ScriptBodies == {""} \cup {ScriptOfLines(n) : n \in 1..MaxScriptLines}

\* one script node of each variant
ScriptNodes ==
    UNION {{TransformScript("root.root.props.text.binding.transforms[0]", body,
                            "root.root.props.text"),
            EventHandlerScript("root.root.events.onClick", "", "onClick", body, "L"),
            MessageHandlerScript("root.root.scripts.messageHandlers[0]", body, "msg",
                                 <<BoolVal(FALSE), BoolVal(FALSE), BoolVal(TRUE)>>),
            CustomMethodScript("root.root.scripts.customMethods[0]", "refresh", body,
                               <<"force">>)} : body \in ScriptBodies}

\* the collected scripts: one script, or two of different paths
CollectedLists ==
    {<<a>> : a \in ScriptNodes}
    \cup {<<pair[1], pair[2]>> :
              pair \in {p \in ScriptNodes \X ScriptNodes : p[1].path # p[2].path}}

CombineInit ==
    /\ Constructed(NewNamePatternRule("camelCase", {"property"}, NoOverrides, "error"))
    /\ args \in {[fn |-> fn, scripts |-> scripts] :
                 fn \in {"_combine_scripts", "_run_pylint_batch"}, scripts \in CollectedLists}
    /\ returned = [done |-> FALSE]

\* PylintScriptRule._combine_scripts(scripts) of rules/scripts/lint_script.py
CombineCall ==
    /\ args.fn = "_combine_scripts"
    /\ ~returned.done
    /\ returned' = Returned(combine_scripts(args.scripts))
    /\ UNCHANGED args
    /\ UNCHANGED engine_vars

\* the combining part of PylintScriptRule._run_pylint_batch(scripts) of
\* rules/lint_script.py
BatchCombineCall ==
    /\ args.fn = "_run_pylint_batch"
    /\ ~returned.done
    /\ returned' = Returned(batch_line_map(args.scripts))
    /\ UNCHANGED args
    /\ UNCHANGED engine_vars

CombineNext == CombineCall \/ BatchCombineCall

CombineSpec == CombineInit /\ [][CombineNext]_vars

(***************************************************************************)
(* ViewNode.accept called on its own, on a node and a rule that defines    *)
(* some of the visit methods                                               *)
(***************************************************************************)
\* the visit methods a rule may define itself
RuleMethods ==
    {"visit_script", "visit_generic", "visit_message_handler", "visit_custom_method",
     "visit_transform", "visit_event_handler"}

\* one node of each script variant, a binding NodeVisitor has a method for,
\* one it has none for, and a component
AcceptedNodes ==
    {n \in ScriptNodes : n.script = ""}
    \cup {ExpressionBinding("root.root.props.text", "now(500)"),
          [ViewNode("root.root.props.data", "query_binding") EXCEPT !.type = "query"],
          Component("root.root", "root", "ia.container.coord")}

AcceptInit ==
    /\ Constructed(NewNamePatternRule("camelCase", {"property"}, NoOverrides, "error"))
    /\ args \in {[fn |-> "accept", node |-> node, defined |-> defined] :
                 node \in AcceptedNodes, defined \in SUBSET RuleMethods}
    /\ returned = [done |-> FALSE]

\* node.accept(rule)
AcceptCall ==
    /\ ~returned.done
    /\ returned' = Returned(accept(args.node, args.defined))
    /\ UNCHANGED args
    /\ UNCHANGED engine_vars

AcceptSpec == AcceptInit /\ [][AcceptCall]_vars

(***************************************************************************)
(* LintEngine([PollingIntervalRule(), PylintScriptRule()]).process called  *)
(* on its own, on one document and one outcome of the analyzer             *)
(***************************************************************************)
\* a label whose text is bound to an expression
PollingDoc(expression) ==
    JDict(<<
        KV("root", JDict(<<
            KV("meta", JDict(<<KV("name", JStr("root"))>>)),
            KV("props", JDict(<<
                KV("text", JDict(<<
                    KV("binding", JDict(<<
                        KV("type", JStr("expr")),
                        KV("config", JDict(<<KV("expression", JStr(expression))>>))>>))>>))>>))>>))>>)

PollingIntervals == {0, 1, 500, 9999, 10000, 10001, 20000}

PollingExpressions ==
    {"now(" \o IntStr(n) \o ")" : n \in PollingIntervals}
    \cup {"now()", "now( )", "now ( 500 )", "now", "snow", "now(abc)", "{view.params.title}",
          "now(20000) + now(500)", "dateFormat(now(0), 'HH') + now()"}

AnalysisDocuments == Documents \cup {PollingDoc(e) : e \in PollingExpressions}

\* the lines of the combined unit the analyzer reports a diagnostic at
ReportedLines == {8, 9, 12}

ToolOutcomes ==
    {Analyzed("")} \cup {Analyzed(PylintOutput(n)) : n \in ReportedLines}
    \cup {Failed("OSError", "[Errno 28] No space left on device"),
          Failed("ImportError", "No module named 'astroid'"),
          Failed("UnicodeEncodeError", "'utf-8' codec can't encode character: surrogates not allowed")}

AnalysisRuleKeys == {"PollingIntervalRule", "PylintScriptRule"}

\* LintResults(warnings, errors, has_errors) of the two rules
AnalysisResults(polling, pylint) ==
    LET collected(field) ==
            [key \in AnalysisRuleKeys |->
                IF key = "PollingIntervalRule" THEN polling[field] ELSE pylint[field]]
    IN [warnings |-> collected("warnings"), errors |-> collected("errors"),
        has_errors |-> \E key \in AnalysisRuleKeys : collected("errors")[key] # <<>>]

\* what LintEngine.process hands back once the two rules have processed the
\* nodes: the results, or the exception that leaves process, in which case
\* no results exist; tool is the outcome the batch met
process(polling, pylint, tool) ==
    IF pylint.raised # ""
    THEN [raised |-> pylint.raised, tool |-> tool, analyzed |-> pylint.analyzed,
          results |-> AnalysisResults(NewPylintScriptRule, NewPylintScriptRule)]
    ELSE [raised |-> "", tool |-> tool, analyzed |-> pylint.analyzed,
          results |-> AnalysisResults(polling, pylint.rule)]

AnalysisInit ==
    /\ Constructed(NewNamePatternRule("camelCase", {"property"}, NoOverrides, "error"))
    /\ args \in {[fn |-> "process", doc |-> doc, severity |-> severity] :
                 doc \in AnalysisDocuments, severity \in {"error", "warning"}}
    /\ returned = [done |-> FALSE]

\* LintEngine([PollingIntervalRule(severity=...), PylintScriptRule()])
\* .process(flatten_json(doc)): the model is built, every rule processes all
\* of its nodes in turn
AnalysisCall ==
    /\ ~returned.done
    /\ \E all_nodes \in {AllNodes(build_model(Flatten(args.doc)), 1)} :
       \E polling \in {PollingProcessNodes(
                          NewPollingIntervalRule(minimum_interval, args.severity), all_nodes)} :
       \E tool \in ToolOutcomes :
       \E pylint \in {PylintProcessNodes(NewPylintScriptRule, all_nodes, tool)} :
          returned' = Returned(process(polling, pylint, tool))
    /\ UNCHANGED args
    /\ UNCHANGED engine_vars

AnalysisSpec == AnalysisInit /\ [][AnalysisCall]_vars

(***************************************************************************)
(* _suggest_name and _validate_name of a NamePatternRule called on their   *)
(* own: a name is turned into the suggestion for the rule's convention,    *)
(* and the suggestion is validated by the same rule                        *)
(***************************************************************************)
Names ==
    {"api_button", "myButton", "my button", "2ndButton", "button1", "my.button", "API",
     "apiKey", "My API", "x", "___", "HTTPServer", "my_id", "MyButton", "my-button",
     "MY_BUTTON", "Ab", "ID", "a b", "idle", "Label", "start stop", "XMLParser", "parseXML"}

NameInit ==
    /\ \E convention \in NAMING_CONVENTIONS :
          Constructed(NewNamePatternRule(convention, {"component"}, NoOverrides, "error"))
    /\ args \in {[fn |-> "_suggest_name", name |-> name] : name \in Names}
    /\ returned = [done |-> FALSE]

NameCall ==
    /\ ~returned.done
    /\ \E suggestion \in {suggest_name(name_rule.convention, args.name)} :
          returned' = Returned([suggestion |-> suggestion,
                                errors |-> validate_name(name_rule, Component("", suggestion, ""),
                                                         suggestion)])
    /\ UNCHANGED args
    /\ UNCHANGED engine_vars

NameSpec == NameInit /\ [][NameCall]_vars

(***************************************************************************)
(* Properties                                                              *)
(***************************************************************************)
\* the messages a rule filed in the last run, errors then warnings
Reports(rule) == rule.errors \o rule.warnings

\* the number of messages of a list that are about path: "<path>: ..."
CountFor(messages, path) ==
    Cardinality({k \in 1..Len(messages) : StartsWith(messages[k], path \o ": ")})

\* the number of messages of a list that are about path or an element of it
CountUnder(messages, path) ==
    Cardinality({k \in 1..Len(messages) :
                    StartsWith(messages[k], path \o ": ") \/ StartsWith(messages[k], path \o "[")})

PropertyPaths == {view_model.properties[k].path : k \in 1..Len(view_model.properties)}

\* the view-level array-valued properties of the document: custom.X or
\* params.X for the flat paths custom.X[i], params.X[i]
ViewArrayProperties ==
    {SubSeq(flattened_json[i].path, 1, FindFrom(flattened_json[i].path, "[", 1) - 1) :
        i \in {j \in 1..Len(flattened_json) :
                  /\ StartsWith(flattened_json[j].path, "custom.")
                     \/ StartsWith(flattened_json[j].path, "params.")
                  /\ EndsWith(flattened_json[j].path, "]")
                  /\ Cardinality(Occurrences(flattened_json[j].path, "[")) = 1
                  /\ Cardinality(Occurrences(flattened_json[j].path, ".")) = 1}}

\* C1: an array-valued view property (persistent, as it is without a
\* propConfig entry) is one Property node with the array's path and the array
\* as its value, no Property node has an indexed path under it, and a naming
\* rule that targets properties reports it at most once, exactly once when
\* its name starts with a capital (no convention for properties allows that)
C1_ArrayPropertyAtomicity ==
    \A array_path \in ViewArrayProperties :
        is_property_persistent(flattened_json, array_path) =>
            /\ Cardinality({k \in 1..Len(view_model.properties) :
                               /\ view_model.properties[k].path = array_path
                               /\ view_model.properties[k].value.t = "list"}) = 1
            /\ \A path \in PropertyPaths : ~StartsWith(path, array_path \o "[")
            /\ "property" \in name_rule.target_node_types =>
                   /\ CountUnder(Reports(name_rule), array_path) <= 1
                   /\ SubSeq(array_path, 8, 8) \in UpperChars =>
                          CountUnder(Reports(name_rule), array_path) = 1

\* the path a message is about: the text before its first ": "
MessagePath(message) == SubSeq(message, 1, FindFrom(message, ": ", 1) - 1)

\* a path that lies under a style or elementStyle map
UnderStyleMap(path) == Contains(path, ".style.") \/ Contains(path, ".elementStyle.")

\* C2: no leaf under a style or elementStyle map of a component becomes a
\* Property node, the naming rule reports no such leaf, and the other leaves
\* of a component (persistent ones, where they are custom properties) still
\* become Property nodes
C2_NoStylePropertyNodes ==
    /\ \A path \in PropertyPaths : ~UnderStyleMap(path)
    /\ \A k \in 1..Len(Reports(name_rule)) : ~UnderStyleMap(MessagePath(Reports(name_rule)[k]))
    /\ \A i \in 1..Len(flattened_json) :
          LET path == flattened_json[i].path
          IN (/\ ~SkippedPath(path)
              /\ ~UnderStyleMap(path)
              /\ OwnerPath(view_model.components, path) # ""
              /\ is_property_persistent(flattened_json, path)) => path \in PropertyPaths

\* what a newly constructed engine with the same rule configuration returns
\* for the document the engine has just processed
FreshResults ==
    LET all_nodes == AllNodes(build_model(flattened_json), 1)
        fresh_name_rule == [name_rule EXCEPT !.errors = <<>>, !.warnings = NewWarnings]
    IN LintResults(NameProcessNodes(fresh_name_rule, all_nodes),
                   UnusedProcessNodes(NewUnusedRule, flattened_json, all_nodes),
                   BadProcessNodes([errors |-> <<>>, warnings |-> NewWarnings], all_nodes))

\* C3: the warnings and errors an engine returns for a document are those a
\* newly constructed engine with the same rules returns for it, whatever the
\* engine has processed before
C3_FreshRuleStatePerRun == runs >= 1 => results = FreshResults

\* the nodes of the model the naming rule is applied to
NamedNodes ==
    {n \in Range(view_model.components) \cup Range(view_model.properties) :
        n.node_type \in name_rule.target_node_types}

\* C4: when node_type_specific_rules gives severities, a naming violation of a
\* node is filed under the severity configured for the node's type: once in
\* errors and not in warnings when that is error, once in warnings and not in
\* errors otherwise
C4_SeverityByNodeType ==
    \A n \in NamedNodes :
        LET severity == get_node_specific_config(name_rule, n.node_type, "severity",
                                                 name_rule.severity)
        IN (/\ n.node_type \in DOMAIN name_rule.node_type_specific_rules
            /\ validate_name(name_rule, n, n.name) # <<>>) =>
               IF severity = "error"
               THEN CountFor(name_rule.errors, n.path) = 1 /\ CountFor(name_rule.warnings, n.path) = 0
               ELSE CountFor(name_rule.warnings, n.path) = 1 /\ CountFor(name_rule.errors, n.path) = 0

\* C5: a NamePatternRule built with node_type_specific_rules and without
\* target_node_types targets exactly the node types that have an override, so
\* every badly named component and property of the document is reported
C5_TargetTypesFromOverrides ==
    LET built == [name_rule EXCEPT !.errors = <<>>, !.warnings = NewWarnings]
        overridden == DOMAIN name_rule.node_type_specific_rules
    IN (/\ overridden # {}
        /\ built = NewNamePatternRule(built.convention, {}, built.node_type_specific_rules,
                                      built.severity)) =>
           /\ name_rule.target_node_types = overridden
           /\ \A n \in Range(view_model.components) \cup Range(view_model.properties) :
                 (n.node_type \in overridden /\ validate_name(name_rule, n, n.name) # <<>>) =>
                     CountFor(Reports(name_rule), n.path) = 1

\* C6: a script node or expression binding whose text holds a forbidden
\* pattern gets exactly one BadComponentReferenceRule error in a run
C6_OneErrorPerForbiddenReference ==
    \A n \in Range(view_model.scripts) \cup Range(view_model.expression_bindings) :
        (\E k \in 1..Len(forbidden_patterns) :
            Contains(IF n.node_type = "expression_binding" THEN n.expression ELSE n.script,
                     forbidden_patterns[k])) =>
            CountFor(results.errors["BadComponentReferenceRule"], n.path) = 1

\* the name a recorded definition ends in
DefinedName(definition) == Last(Split(definition.path, "."))

\* a recorded definition has a matching usage: a direct one, or for a
\* component-scoped definition a wildcard one
HasUsage(definition) ==
    \/ definition.path \in unused_rule.used_properties
    \/ /\ ~StartsWith(definition.val, "custom.")
       /\ ~StartsWith(definition.val, "params.")
       /\ ("*.custom." \o DefinedName(definition)) \in unused_rule.used_properties

\* the error the claim describes for a recorded definition
UnusedReport(definition) ==
    definition.val \o ": "
    \o (IF StartsWith(definition.val, "params.") THEN "view parameter" ELSE "custom property")
    \o " '" \o DefinedName(definition) \o "' is defined but never referenced"

\* C7: after a run every definition the unused-property rule has recorded and
\* that has no matching usage, direct or wildcard, is reported by exactly one
\* error; the error names the property, contains "never referenced" and says
\* "view parameter" for a definition under params, "custom property" otherwise
C7_UnusedDefinitionsReportedOnce ==
    runs >= 1 =>
        \A k \in 1..Len(unused_rule.defined_properties) :
            LET definition == unused_rule.defined_properties[k]
                reports == {e \in 1..Len(unused_rule.errors) :
                               StartsWith(unused_rule.errors[e], definition.val \o ": ")}
            IN ~HasUsage(definition) =>
                   /\ Cardinality(reports) = 1
                   /\ \A e \in reports :
                         /\ unused_rule.errors[e] = UnusedReport(definition)
                         /\ results.errors["UnusedCustomPropertiesRule"][e] = unused_rule.errors[e]
                   /\ Contains(UnusedReport(definition), "'" \o DefinedName(definition) \o "'")
                   /\ Contains(UnusedReport(definition), "never referenced")

\* C7 witness: a run has reported an unused view parameter and an unused
\* custom property and has left a used parameter unreported
C7_Witness ==
    /\ runs >= 1
    /\ \E k \in 1..Len(unused_rule.errors) : Contains(unused_rule.errors[k], "view parameter 'inParam'")
    /\ \E k \in 1..Len(unused_rule.errors) : Contains(unused_rule.errors[k], "custom property 'count'")
    /\ "view.params.usedParam" \in unused_rule.used_properties
    /\ \A k \in 1..Len(unused_rule.errors) : ~Contains(unused_rule.errors[k], "usedParam")

\* the leaves of the document that are candidates for a custom property or
\* parameter: view-level ones and custom properties of a component
CustomCandidates ==
    {flattened_json[i].path :
        i \in {j \in 1..Len(flattened_json) :
                  /\ ~SkippedPath(flattened_json[j].path)
                  /\ \/ StartsWith(flattened_json[j].path, "custom.")
                     \/ StartsWith(flattened_json[j].path, "params.")
                     \/ /\ OwnerPath(view_model.components, flattened_json[j].path) # ""
                        /\ Contains(flattened_json[j].path, ".custom.")}}

HasConfigEntry(path) ==
    \E i \in 1..Len(flattened_json) :
        StartsWith(flattened_json[i].path, "propConfig." \o path \o ".")

PersistentFlag(path) == Get(flattened_json, "propConfig." \o path \o ".persistent", None)

C10_ComponentWitness ==
    /\ \E path \in CustomCandidates :
          PersistentFlag(path) = BoolVal(FALSE) /\ StartsWith(path, "root.")
    /\ \E path \in CustomCandidates :
          HasConfigEntry(path) /\ PersistentFlag(path) = None /\ StartsWith(path, "root.")

\* the strings of the document
DocumentStrings ==
    {flattened_json[i].val.s :
        i \in {j \in 1..Len(flattened_json) : flattened_json[j].val.t = "str"}}

\* the custom property names the document refers to as this.custom.X or
\* self.custom.X
WildcardReferences ==
    UNION {Range(FindAllIdent(v, "this.custom.", 1)) \cup Range(FindAllIdent(v, "self.custom.", 1)) :
              v \in DocumentStrings}

\* the leaves of the document that belong to a custom property of a
\* component, and the name of that property
ComponentCustomLeaves ==
    {path \in CustomCandidates : OwnerPath(view_model.components, path) # ""}

CustomName(path) ==
    LET rest == Last(Split(path, ".custom."))
    IN SubSeq(rest, 1, RunEnd(rest, 1, IdentChars))

\* C8: when a string of the document refers to this.custom.X or
\* self.custom.X, every custom property named X of a component is marked
\* used by the wildcard usage and no unused-property error is about it
C8_WildcardMarksEveryComponent ==
    runs >= 1 =>
        \A path \in ComponentCustomLeaves :
            CustomName(path) \in WildcardReferences =>
                /\ ("*.custom." \o CustomName(path)) \in unused_rule.used_properties
                /\ \A k \in 1..Len(unused_rule.errors) :
                      MessagePath(unused_rule.errors[k]) # path

\* the document of the end-to-end scenario, and that document with the
\* expression binding {view.custom.unusedProp} added somewhere
ScenarioUnused == Flatten(UnusedDoc)
ScenarioUsed ==
    {Flatten(UsedInRootDoc), Flatten(UsedInChildDoc), Flatten(UsedFirstDoc),
     Flatten(UsedInConfigDoc)}

\* C9: linting the scenario document yields exactly one unused-property
\* error, which mentions unusedProp and "never referenced"; linting it with
\* the expression binding {view.custom.unusedProp} added yields no error
C9_EndToEndUnusedScenario ==
    LET errors == results.errors["UnusedCustomPropertiesRule"]
    IN /\ (runs >= 1 /\ flattened_json = ScenarioUnused) =>
              /\ Len(errors) = 1
              /\ Contains(errors[1], "unusedProp")
              /\ Contains(errors[1], "never referenced")
       /\ (runs >= 1 /\ flattened_json \in ScenarioUsed) => errors = <<>>

\* the Property nodes of the model that belong to a component
ComponentScoped ==
    {p \in Range(view_model.properties) :
        /\ ~StartsWith(p.path, "custom.")
        /\ ~StartsWith(p.path, "params.")}

\* the components whose path is the longest prefix of path
LongestPrefixOwners(path) ==
    {c \in Range(view_model.components) :
        /\ StartsWith(path, c.path)
        /\ \A d \in Range(view_model.components) :
              StartsWith(path, d.path) => Len(d.path) <= Len(c.path)}

\* a component holds the property: its properties map has the name with the
\* value
Attached(c, p) ==
    \E k \in 1..Len(c.properties) : c.properties[k] = [path |-> p.name, val |-> p.value]

\* C11: every component-scoped property is attached to the component whose
\* path is the longest prefix of the property's path, and to no other
\* component
C11_LongestPrefixOwnership ==
    \A p \in ComponentScoped :
        /\ \E c \in LongestPrefixOwners(p.path) : Attached(c, p)
        /\ \A c \in Range(view_model.components) :
              Attached(c, p) => c \in LongestPrefixOwners(p.path)

\* the prefixes of the flat-map paths that end in .binding.type
BindingTypePrefixes ==
    {RSplitHead(flattened_json[i].path, ".binding.type") :
        i \in {j \in 1..Len(flattened_json) : EndsWith(flattened_json[j].path, ".binding.type")}}

\* C12: every flat-map path ending in .binding.type yields exactly one
\* binding node, located at the prefix before .binding.type, whatever value
\* the path holds, and every binding node comes from such a path
C12_OneBindingPerTypePath ==
    /\ \A prefix \in BindingTypePrefixes :
          Cardinality({k \in 1..Len(view_model.bindings) :
                          view_model.bindings[k].path = prefix}) = 1
    /\ \A k \in 1..Len(view_model.bindings) :
          view_model.bindings[k].path \in BindingTypePrefixes

\* the number of scalars in a JSON value
RECURSIVE LeafCount(_)
RECURSIVE LeafCountFrom(_, _)
LeafCount(node) ==
    IF node.t \in {"dict", "list"} THEN LeafCountFrom(node.items, 1) ELSE 1
LeafCountFrom(items, i) ==
    IF i > Len(items) THEN 0 ELSE LeafCount(items[i].v) + LeafCountFrom(items, i + 1)

\* the name an object carries as meta.name, "" when it carries none
CarriedName(node) ==
    LET name == DictGet(DictGet(node, "meta"), "name")
    IN IF name.t = "str" THEN name.s ELSE ""

\* walking the document from the path under which a value is reached: an
\* object that carries a name X has all the paths of its subtree, as many as
\* it has scalars, under <reach>.X. followed by its own keys, and the values
\* below it are reached from there
RECURSIVE NamesInjected(_, _, _)
NamesInjected(node, reach, flat) ==
    CASE node.t = "dict" ->
             LET name == CarriedName(node)
                 own == IF name = "" THEN reach
                        ELSE IF reach = "" THEN name ELSE reach \o "." \o name
             IN /\ name # "" =>
                       Cardinality({i \in 1..Len(flat) : StartsWith(flat[i].path, own \o ".")})
                           = LeafCount(node)
                /\ \A i \in 1..Len(node.items) :
                      NamesInjected(node.items[i].v,
                                    IF own = "" THEN node.items[i].k
                                    ELSE own \o "." \o node.items[i].k,
                                    flat)
      [] node.t = "list" ->
             \A i \in 1..Len(node.items) :
                 NamesInjected(node.items[i].v, reach \o "[" \o IntStr(i - 1) \o "]", flat)
      [] OTHER -> Get(flat, reach, None) = Leaf(node)

\* C13: every flat path produced from the subtree of an object that carries
\* meta.name = X, at any depth and also as an element of a list, holds the
\* segment X after the path under which the object was reached and before
\* the object's own keys, so each path carries the names of all enclosing
\* components in nesting order
C13_ComponentNameInjection ==
    returned.done => NamesInjected(args.data, "", returned.value)

\* C13 witness: a named component in a list of a named component, with a
\* named component under one of its keys, has been flattened
C13_Witness ==
    /\ returned.done
    /\ Get(returned.value, "root.A.children[0].B.slot.A.text", None) = StrVal("t")
    /\ Get(returned.value, "root.A.children[0].B.meta.name", None) = StrVal("B")

\* the first line recorded for each script of a line map
StartLines(line_map) ==
    {Minimum({ln \in DOMAIN line_map : line_map[ln] = path}) : path \in ScriptPaths(line_map)}

\* C14: a diagnostic at line L of the combined unit is filed under the script
\* with the greatest recorded start line S <= L, as relative line L - S + 1,
\* and under no other script; with scripts recorded from lines 10 and 40 a
\* diagnostic at line 45 is filed under the second one as line 6.
C14_DiagnosticRemapping ==
    returned.done =>
        LET L == args.line_num
            reached == {S \in StartLines(args.line_map) : S <= L}
            S == Maximum(reached)
        IN /\ reached # {} =>
                \A path \in DOMAIN returned.value :
                    returned.value[path] =
                        IF path = args.line_map[S]
                        THEN <<"Line " \o IntStr(L - S + 1) \o ": " \o DiagnosticMessage>>
                        ELSE <<>>
           /\ (args.line_map = OffsetMap /\ L = 45) =>
                returned.value["second"] = <<"Line 6: Undefined variable 'x' (undefined-variable)">>

C14_Witness ==
    /\ returned.done
    /\ args.line_map = OffsetMap
    /\ args.line_num = 45
    /\ returned.value["first"] = <<>>
    /\ returned.value["second"] = <<"Line 6: Undefined variable 'x' (undefined-variable)">>

\* a diagnostic inside the second of two combined scripts is made relative
C14_CombinedWitness ==
    /\ returned.done
    /\ args.line_map # OffsetMap
    /\ Cardinality(ScriptPaths(args.line_map)) = 2
    /\ returned.value["root.events.dom.onClick"] = <<"Line 2: " \o DiagnosticMessage>>

\* the scripts the analyzer rule collects from the document of the call
CollectedPaths ==
    LET scripts == build_model(Flatten(args.doc)).scripts
    IN {scripts[k].path : k \in 1..Len(scripts)}

\* C15: when creating the combined file or running the analyzer fails, the
\* run is not aborted: process returns results which hold exactly one error
\* for each collected script.
C15_ToolFailureRecorded ==
    (returned.done /\ returned.value.tool.raises # "" /\ CollectedPaths # {}) =>
        /\ returned.value.raised = ""
        /\ \A path \in CollectedPaths :
              CountFor(returned.value.results.errors["PylintScriptRule"], path) = 1

\* the messages the polling rule filed in the call, errors then warnings
PollingReports ==
    returned.value.results.errors["PollingIntervalRule"]
    \o returned.value.results.warnings["PollingIntervalRule"]

\* the one binding of PollingDoc(expression) is reported
PollingReported(expression) ==
    \E k \in 1..Len(PollingReports) :
        PollingReports[k] = "root.root.props.text: '" \o expression \o "'"

\* C16: with minimum_interval = 10000 a binding on now() and one on now(500)
\* are reported, one on now(0) and one on now(20000) are not; a binding on
\* now(n) is reported exactly when 0 < n < 10000.
C16_PollingBoundary ==
    (returned.done /\ minimum_interval = 10000) =>
        /\ args.doc = PollingDoc("now()") => PollingReported("now()")
        /\ args.doc = PollingDoc("now(500)") => PollingReported("now(500)")
        /\ args.doc = PollingDoc("now(0)") => PollingReports = <<>>
        /\ args.doc = PollingDoc("now(20000)") => PollingReports = <<>>
        /\ \A n \in PollingIntervals :
              LET e == "now(" \o IntStr(n) \o ")"
              IN args.doc = PollingDoc(e) => (PollingReported(e) <=> (0 < n /\ n < 10000))

C16_Witness ==
    /\ returned.done
    /\ args.doc = PollingDoc("now(500)")
    /\ PollingReported("now(500)")

C16_UnreportedWitness ==
    /\ returned.done
    /\ args.doc = PollingDoc("now(0)")
    /\ PollingReports = <<>>

C16_NoArgumentWitness ==
    /\ returned.done
    /\ args.doc = PollingDoc("now()")
    /\ PollingReported("now()")

\* C17: for every convention and every name a suggestion is generated for,
\* the suggested name, validated by the same rule, has no violation.
C17_NamingRoundTrip ==
    (returned.done /\ returned.value.suggestion # "") => returned.value.errors = <<>>

\* a rule of the engine holds an error, or a warning, after the last run
SomeRuleHasErrors ==
    name_rule.errors # <<>> \/ unused_rule.errors # <<>> \/ bad_rule.errors # <<>>
SomeRuleHasWarnings ==
    name_rule.warnings # <<>> \/ unused_rule.warnings # <<>> \/ bad_rule.warnings # <<>>

\* C18: the run fails (has_errors) exactly when at least one rule produced at
\* least one error; warnings, however many, never make it fail.
C18_FailureIffErrors ==
    runs > 0 =>
        /\ results.has_errors <=> SomeRuleHasErrors
        /\ results.has_errors <=> \E key \in RuleKeys : results.errors[key] # <<>>
        /\ (SomeRuleHasWarnings /\ ~SomeRuleHasErrors) => ~results.has_errors

\* a run that produced warnings only, and passes
C18_Witness ==
    /\ runs > 0
    /\ SomeRuleHasWarnings
    /\ \E key \in RuleKeys : Len(results.warnings[key]) > 1
    /\ ~SomeRuleHasErrors
    /\ ~results.has_errors

\* a run that produced an error, and fails
C18_FailingWitness ==
    /\ runs > 0
    /\ SomeRuleHasErrors
    /\ results.has_errors

\* the text stored at a path of the linted flat map, fallback when the path
\* is missing
FieldOr(path, fallback) ==
    IF HasKey(flattened_json, path) THEN Get(flattened_json, path, None).s ELSE fallback

\* the leaf stored at a path of the linted flat map, fallback when missing
LeafOr(path, fallback) ==
    IF HasKey(flattened_json, path) THEN Get(flattened_json, path, None) ELSE fallback

\* every binding of a known type, component, message handler, custom method
\* and event handler of the flat map is in the model, a missing field of it
\* replaced by its sentinel
SentinelsInPlace ==
    \A i \in 1..Len(flattened_json) :
        LET path == flattened_json[i].path
            val == flattened_json[i].val
            binding == RSplitHead(path, ".binding.type")
            component == RSplitHead(path, ".meta.name")
            handler == RSplitHead(path, ".messageType")
            event == RSplitHead(path, ".script")
            method == SubSeq(path, 1, FindFrom(path, "]", FindFrom(path, ".scripts.customMethods[", 1)))
        IN /\ (EndsWith(path, ".binding.type") /\ val \in {StrVal("expr"), StrVal("expression")}) =>
                \E n \in Range(view_model.expression_bindings) :
                    /\ n.path = binding
                    /\ n.expression = FieldOr(binding \o ".binding.config.expression", "unknown")
           /\ (EndsWith(path, ".binding.type") /\ val = StrVal("property")) =>
                \E n \in Range(view_model.property_bindings) :
                    /\ n.path = binding
                    /\ n.target_path = FieldOr(binding \o ".binding.config.path", "unknown")
           /\ (EndsWith(path, ".binding.type") /\ val = StrVal("tag")) =>
                \E n \in Range(view_model.tag_bindings) :
                    /\ n.path = binding
                    /\ n.tag_path = FieldOr(binding \o ".binding.config.tagPath", "unknown")
           /\ EndsWith(path, ".meta.name") =>
                \E n \in Range(view_model.components) :
                    /\ n.path = component
                    /\ n.type = FieldOr(component \o ".type", "unknown")
           /\ (Contains(path, ".scripts.messageHandlers") /\ EndsWith(path, ".messageType")) =>
                \E n \in Range(view_model.message_handlers) :
                    /\ n.path = handler
                    /\ n.script = FieldOr(handler \o ".script", "")
                    /\ n.scope = <<LeafOr(handler \o ".pageScope", BoolVal(FALSE)),
                                   LeafOr(handler \o ".sessionScope", BoolVal(FALSE)),
                                   LeafOr(handler \o ".viewScope", BoolVal(FALSE))>>
           /\ Contains(path, ".scripts.customMethods[") =>
                \E n \in Range(view_model.custom_methods) :
                    /\ n.path = method
                    /\ n.name = FieldOr(method \o ".name", "unknown_method")
                    /\ n.script = FieldOr(method \o ".script", "")
           /\ (EndsWith(path, ".script") /\ EventTypeMatch(event) # "") =>
                \E n \in Range(view_model.event_handlers) :
                    /\ n.path = event
                    /\ n.script = val.s
                    /\ n.scope = <<LeafOr(event \o ".scope", StrVal("L"))>>

\* every transform of a known binding that is declared a script is in the
\* model, a missing script replaced by the empty string
ScriptTransformsEmitted ==
    \A i \in 1..Len(flattened_json) :
        LET path == flattened_json[i].path
            transform == RSplitHead(path, ".type")
        IN (/\ Contains(path, ".binding.transforms[")
            /\ EndsWith(path, "].type")
            /\ flattened_json[i].val = StrVal("script")
            /\ HasKey(flattened_json, Split(path, ".binding.transforms[")[1] \o ".binding.type")
            /\ Get(flattened_json, Split(path, ".binding.transforms[")[1] \o ".binding.type", None)
                    \in {StrVal("expr"), StrVal("expression"), StrVal("property"), StrVal("tag")}) =>
                \E n \in Range(view_model.script_transforms) :
                    /\ n.path = transform
                    /\ n.script = FieldOr(transform \o ".script", "")

\* C19: build_model completes on partial shapes, and a binding, script or
\* event handler that lacks an expected sub-path is still in the model, the
\* missing field replaced by "unknown", the empty string or the scope "L".
C19_SentinelsForMissingFields ==
    runs > 0 => (SentinelsInPlace /\ ScriptTransformsEmitted)

\* the paths of the leaves in the order a depth-first walk of the document
\* meets them, the keys of an object taken in source order
RECURSIVE LeafPaths(_, _)
RECURSIVE LeafPathsFrom(_, _, _)
LeafPaths(node, reach) ==
    CASE node.t = "dict" ->
             LET name == CarriedName(node)
                 own == IF name = "" THEN reach
                        ELSE IF reach = "" THEN name ELSE reach \o "." \o name
             IN LeafPathsFrom(node, own, 1)
      [] node.t = "list" -> LeafPathsFrom(node, reach, 1)
      [] OTHER -> <<reach>>
LeafPathsFrom(node, own, i) ==
    IF i > Len(node.items) THEN <<>>
    ELSE LeafPaths(node.items[i].v,
                   IF node.t = "list" THEN own \o "[" \o IntStr(i - 1) \o "]"
                   ELSE IF own = "" THEN node.items[i].k ELSE own \o "." \o node.items[i].k)
         \o LeafPathsFrom(node, own, i + 1)

\* C22: a flat map returned for a document holds its keys in the order in
\* which a depth-first walk with the keys in source order meets the leaves,
\* and flattening the same document again gives the same keys, values and
\* order.
C22_FlatteningOrder ==
    returned.done =>
        /\ [i \in 1..Len(returned.value) |-> returned.value[i].path] = LeafPaths(args.data, "")
        /\ returned.value = (IF args.fn = "flatten_file" THEN flatten_file(args.data)
                             ELSE flatten_json(args.data, "", <<>>))

\* the paths under which a walk of the document reaches an empty array
RECURSIVE EmptyArrayPaths(_, _)
EmptyArrayPaths(node, reach) ==
    CASE node.t = "dict" ->
             LET name == CarriedName(node)
                 own == IF name = "" THEN reach
                        ELSE IF reach = "" THEN name ELSE reach \o "." \o name
             IN UNION {EmptyArrayPaths(node.items[i].v,
                                       IF own = "" THEN node.items[i].k
                                       ELSE own \o "." \o node.items[i].k) :
                       i \in 1..Len(node.items)}
      [] node.t = "list" ->
             IF node.items = <<>> THEN {reach}
             ELSE UNION {EmptyArrayPaths(node.items[i].v, reach \o "[" \o IntStr(i - 1) \o "]") :
                         i \in 1..Len(node.items)}
      [] OTHER -> {}

\* the value holds no scalar and at least one empty array
Hollow(node) == LeafCount(node) = 0 /\ EmptyArrayPaths(node, "") # {}

C23_MixedWitness ==
    /\ returned.done
    /\ EmptyArrayPaths(args.data, "") = {"root.A.slot"}
    /\ [i \in 1..Len(returned.value) |-> returned.value[i].path]
           = <<"root.A.meta.name", "root.A.text">>

\* the script nodes of the document of the call, each once
CollectedScripts ==
    LET model == build_model(Flatten(args.doc))
    IN Range(model.script_transforms) \cup Range(model.message_handlers)
       \cup Range(model.custom_methods) \cup Range(model.event_handlers)

\* C21: in a process call on a document that holds script nodes, however
\* many, the analyzer is run exactly once, on one combined unit that holds
\* the wrapped text of every collected script.
C21_AnalyzerRunOncePerDocument ==
    (returned.done /\ CollectedScripts # {}) =>
        /\ Len(returned.value.analyzed) = 1
        /\ \A node \in CollectedScripts :
              Contains(returned.value.analyzed[1], get_formatted_script(node))

\* the nodes the model holds, over all of its lists
ModelNodes == UNION {Range(view_model[key]) : key \in DOMAIN view_model}

\* the node is made from a key of the flat map: its path begins one of them
DerivedFrom(node, fm) == \E i \in 1..Len(fm) : StartsWith(fm[i].path, node.path)

\* the custom properties the unused-properties rule remembers from documents
\* processed before, which the flat map processed last does not hold
RememberedPaths ==
    {unused_rule.defined_properties[i].val : i \in 1..Len(unused_rule.defined_properties)}
        \ {flattened_json[i].path : i \in 1..Len(flattened_json)}

\* C20: the model the builder returns holds exactly the nodes of the flat map
\* of that call, as a newly constructed builder returns them, and every one
\* of them is derived from that flat map, whatever was built before.
C20_NoCrossCallState ==
    runs > 0 => /\ view_model = collect(EmptyModel, flattened_json)
                /\ \A node \in ModelNodes : DerivedFrom(node, flattened_json)

\* a second call on another document: the rule still remembers a property
\* of the first document, and the model holds no node of it
C20_Witness ==
    /\ runs = 2
    /\ RememberedPaths # {}
    /\ ModelNodes # {}
    /\ \A path \in RememberedPaths : \A node \in ModelNodes : node.path # path

\* how many times the node list of the run hands the node to a rule
Deliveries(node) ==
    LET all_nodes == AllNodes(view_model, 1)
    IN Cardinality({k \in 1..Len(all_nodes) : all_nodes[k] = node})

\* C24: in a run every node of the model is handed to an interested rule
\* exactly once, so the rule on component references, which files one
\* error per visit that finds a pattern, holds at most one error per node.
C24_EachNodeDeliveredOnce ==
    runs > 0 =>
        /\ \A node \in ModelNodes : Deliveries(node) = 1
        /\ \A node \in ModelNodes :
              applies_to_rule(node, BadTargetTypes) =>
                  CountFor(bad_rule.errors, node.path) <= 1

\* the lines of the combined unit, the first being line 1
UnitLines == Split(returned.value.content, "\n")

\* the start line recorded for a script: the least line mapped to its path
RecordedStart(path) ==
    Minimum({ln \in DOMAIN returned.value.line_map : returned.value.line_map[ln] = path})

\* C25: the start line recorded for each collected script is the line of the
\* combined unit that holds the script's function signature, the six lines
\* of the preamble and the comment line before each script being counted.
C25_StartLineIsSignatureLine ==
    returned.done =>
        \A k \in 1..Len(args.scripts) :
            LET start == RecordedStart(args.scripts[k].path)
            IN /\ start \in 1..Len(UnitLines)
               /\ UnitLines[start] = function_def(args.scripts[k])

\* the path of a flat-map key without its ending .config.script or .script
EventPathOf(path) ==
    IF EndsWith(path, ".config.script") THEN RSplitHead(path, ".config.script")
    ELSE RSplitHead(path, ".script")

\* the keys of the linted flat map that hold the script of an event: they
\* contain .events. and end in .script or .config.script, the event type
\* being the segment after the last .events.
EventScriptKeys ==
    {i \in 1..Len(flattened_json) :
        /\ Contains(flattened_json[i].path, ".events.")
        /\ EndsWith(flattened_json[i].path, ".script")
        /\ EventTypeMatch(EventPathOf(flattened_json[i].path)) # ""}

\* C26: every key of the flat map that holds the script of an event yields
\* an event handler node whose path ends with the event type, whose
\* event_type is that segment and whose scope is the .scope beside the
\* script, or "L", whatever the enclosing components are named.
C26_EventHandlerPerEventScript ==
    runs > 0 =>
        \A i \in EventScriptKeys :
            LET event == EventPathOf(flattened_json[i].path)
            IN \E n \in Range(view_model.event_handlers) :
                  /\ n.path = event
                  /\ n.event_type = Last(Split(event, "."))
                  /\ n.script = flattened_json[i].val.s
                  /\ n.scope = <<LeafOr(event \o ".scope", StrVal("L"))>>

\* C27: when a rule defines visit_script and not the visit method of the
\* script variant of the node, accepting a message handler, custom method,
\* transform or event handler calls the rule's visit_script with the node.
C27_FamilyFallback ==
    (/\ returned.done
     /\ args.node.node_type \in ALL_SCRIPTS
     /\ "visit_script" \in args.defined
     /\ "visit_" \o args.node.node_type \notin args.defined) =>
        returned.value = [called |-> "visit_script", by_rule |-> TRUE]

\* names that hold a known abbreviation in capitals, and the abbreviation
AbbreviatedNames ==
    {<<"XMLParser", "XML">>, <<"parseXML", "XML">>, <<"HTTPServer", "HTTP">>,
     <<"My API", "API">>, <<"API", "API">>, <<"ID", "ID">>}

\* C28: a name that holds a known abbreviation in capitals keeps it as it is
\* when converted to PascalCase, camelCase or Title Case, and has it as one
\* word in small letters when converted to snake_case or kebab-case.
C28_AbbreviationAwareConversion ==
    returned.done =>
        \A pair \in AbbreviatedNames :
            (pair[1] = args.name /\ IsAbbreviation(pair[2])) =>
                /\ name_rule.convention \in {"PascalCase", "camelCase", "Title Case"} =>
                      Contains(returned.value.suggestion, pair[2])
                /\ name_rule.convention = "snake_case" =>
                      ToLower(pair[2]) \in Range(Split(returned.value.suggestion, "_"))
                /\ name_rule.convention = "kebab-case" =>
                      ToLower(pair[2]) \in Range(Split(returned.value.suggestion, "-"))


\* the expression holds a now(...) call whose argument list is empty or a
\* positive integer below the minimum
ShortPollingCall(expression) ==
    \E k \in 1..Len(NowIntervals(expression, 1)) :
        LET interval == NowIntervals(expression, 1)[k]
        IN \/ interval = ""
           \/ (0 < StrInt(interval) /\ StrInt(interval) < minimum_interval)

\* C29: an expression binding is reported if and only if its expression holds
\* a now(...) call whose argument list is empty or a positive integer below
\* minimum_interval; an expression whose now calls all carry 0 or a value at
\* or above the minimum, or that holds no such call, is never reported.
C29_ReportedIffShortPolling ==
    \A e \in PollingExpressions :
        (returned.done /\ args.doc = PollingDoc(e)) =>
            (PollingReported(e) <=> ShortPollingCall(e))


\* the text q occurs in v as a whole name: the character after it, if any,
\* cannot continue an identifier
WholeNameOccurs(v, q) ==
    \E i \in 1..Len(v) :
        /\ i + Len(q) - 1 <= Len(v)
        /\ SubSeq(v, i, i + Len(q) - 1) = q
        /\ \/ i + Len(q) > Len(v)
           \/ SubSeq(v, i + Len(q), i + Len(q)) \notin IdentChars

\* a string of the document refers to the defined property prop_path itself,
\* in one of the forms the rule searches for
ReferredTo(prop_path) ==
    \E i \in 1..Len(flattened_json) :
        /\ flattened_json[i].val.t = "str"
        /\ \E q \in Range(search_patterns(prop_path)) :
              WholeNameOccurs(flattened_json[i].val.s, q)

\* C30: a reference to one property is never counted as a usage of another:
\* a defined property that no string of the document refers to by its own
\* name is reported as never referenced, also when its name is a prefix of
\* the name of a property that is referred to (foo beside view.custom.fooBar).
C30_NoPrefixUsage ==
    runs = 1 =>
        \A k \in 1..Len(unused_rule.defined_properties) :
            LET d == unused_rule.defined_properties[k]
            IN ~ReferredTo(d.path) =>
                  \E e \in 1..Len(unused_rule.errors) :
                      MessagePath(unused_rule.errors[e]) = d.val

====
